---- MODULE Spec2Model ----
(***************************************************************************)
(* HttpClient.get of http-client-toolkit: the request pipeline             *)
(*   server cooldown -> cache -> dedupe -> rate limit -> fetch -> record   *)
(*   -> cache write -> dedupe complete, with the catch block, the          *)
(*   stale-if-error fallback and background revalidation.                  *)
(* Time is Date.now() in milliseconds.  One fingerprint, one origin and    *)
(* one rate-limit resource are modelled; Callers are concurrent get calls  *)
(* of one HttpClient instance.                                             *)
(***************************************************************************)
EXTENDS Integers, Sequences, FiniteSets, TLC

\* ------------------------------------------------------------------ bounds
MaxNow == 2000
MaxPolls == 1
\* Math.random() is one of 0/RandomDen .. (RandomDen-1)/RandomDen
RandomDen == 4

Callers == {"a", "b", "c"}
TickSteps == {1000}

\* ------------------------------------------------------ program constants
DefaultCacheTTL == 3600
BlockedBackoffMs == 25

\* "undefined" for an optional number / an optional value
Undef == -1
NoValue == "undefined"
NoEntry == [none |-> TRUE]
NoResp == [none |-> TRUE]

Max(a, b) == IF a >= b THEN a ELSE b
Min(a, b) == IF a <= b THEN a ELSE b

\* -------------------------------------------------- cache-control parser
EMPTY_DIRECTIVES ==
  [maxAge |-> Undef, noCache |-> FALSE, noStore |-> FALSE,
   mustRevalidate |-> FALSE, staleWhileRevalidate |-> Undef,
   staleIfError |-> Undef]

\* parseSeconds: a malformed or negative number is absent
parseSeconds(v) == IF v >= 0 THEN v ELSE Undef

\* one iteration of the switch over a directive token [k, v]
ApplyDirective(result, tok) ==
  CASE tok.k = "max-age" -> [result EXCEPT !.maxAge = parseSeconds(tok.v)]
    [] tok.k = "no-cache" -> [result EXCEPT !.noCache = TRUE]
    [] tok.k = "no-store" -> [result EXCEPT !.noStore = TRUE]
    [] tok.k = "must-revalidate" -> [result EXCEPT !.mustRevalidate = TRUE]
    [] tok.k = "stale-while-revalidate" ->
         [result EXCEPT !.staleWhileRevalidate = parseSeconds(tok.v)]
    [] tok.k = "stale-if-error" ->
         [result EXCEPT !.staleIfError = parseSeconds(tok.v)]
    [] OTHER -> result

RECURSIVE ParseTokens(_, _)
ParseTokens(result, toks) ==
  IF toks = <<>> THEN result
  ELSE ParseTokens(ApplyDirective(result, Head(toks)), Tail(toks))

\* a header is a sequence of directive tokens; <<>> is an absent header
parseCacheControl(header) ==
  IF header = <<>> THEN EMPTY_DIRECTIVES
  ELSE ParseTokens(EMPTY_DIRECTIVES, header)

Tok(k, v) == [k |-> k, v |-> v]

\* ------------------------------------------------------ freshness engine
\* Lifetimes and ages are kept in milliseconds (the code's seconds * 1000)
\* so that the code's fractional seconds compare exactly.
calculateFreshnessLifetimeMs(metadata) ==
  IF metadata.cacheControl.maxAge # Undef
  THEN metadata.cacheControl.maxAge * 1000
  ELSE IF metadata.expires # Undef
  THEN IF metadata.expires = 0 THEN 0
       ELSE Max(0, metadata.expires - metadata.responseDate)
  ELSE IF metadata.lastModified # Undef
          /\ metadata.responseDate - metadata.lastModified > 0
  THEN ((metadata.responseDate - metadata.lastModified) \div 10000) * 1000
  ELSE 0

calculateCurrentAgeMs(metadata, currentTime) ==
  LET apparentAge == Max(0, metadata.storedAt - metadata.responseDate)
      correctedInitialAge == Max(apparentAge, metadata.ageHeader * 1000)
      residentTime == currentTime - metadata.storedAt
  IN  correctedInitialAge + residentTime

getFreshnessStatusSwrBeforeMustRevalidate(metadata, currentTime) ==
  LET cc == metadata.cacheControl
      freshnessLifetime == calculateFreshnessLifetimeMs(metadata)
      currentAge == calculateCurrentAgeMs(metadata, currentTime)
      staleness == currentAge - freshnessLifetime
  IN  IF cc.noCache THEN "no-cache"
      ELSE IF freshnessLifetime >= currentAge THEN "fresh"
      ELSE IF cc.staleWhileRevalidate # Undef
              /\ staleness <= cc.staleWhileRevalidate * 1000
      THEN "stale-while-revalidate"
      ELSE IF cc.mustRevalidate THEN "must-revalidate"
      ELSE IF cc.staleIfError # Undef
              /\ staleness <= cc.staleIfError * 1000
      THEN "stale-if-error"
      ELSE "stale"

getFreshnessStatus(metadata, currentTime) ==
  LET cc == metadata.cacheControl
      freshnessLifetime == calculateFreshnessLifetimeMs(metadata)
      currentAge == calculateCurrentAgeMs(metadata, currentTime)
      staleness == currentAge - freshnessLifetime
  IN  IF cc.noCache THEN "no-cache"
      ELSE IF freshnessLifetime > currentAge THEN "fresh"
      ELSE IF cc.mustRevalidate THEN "must-revalidate"
      ELSE IF cc.staleWhileRevalidate # Undef
              /\ staleness <= cc.staleWhileRevalidate * 1000
      THEN "stale-while-revalidate"
      ELSE IF cc.staleIfError # Undef
              /\ staleness <= cc.staleIfError * 1000
      THEN "stale-if-error"
      ELSE "stale"

\* seconds; the pipeline's entries carry whole-second lifetimes
calculateStoreTTL(metadata, defaultTTL) ==
  LET freshness == calculateFreshnessLifetimeMs(metadata) \div 1000
      swrWindow == Max(metadata.cacheControl.staleWhileRevalidate, 0)
      sieWindow == Max(metadata.cacheControl.staleIfError, 0)
  IN  IF calculateFreshnessLifetimeMs(metadata) = 0
         /\ metadata.cacheControl.maxAge = Undef
      THEN defaultTTL
      ELSE freshness + Max(swrWindow, sieWindow)


\* ----------------------------------------------------------- cache entry
\* A Date, Expires, Last-Modified or Age header is Undef when absent,
\* Unparseable when its text is not a date / a number, else its value
\* (epoch ms, seconds for Age; "0" for Expires reads as 0).
Unparseable == -2

\* parseHttpDate: undefined for a missing or unparseable value
parseHttpDate(value) ==
  IF value = Undef \/ value = Unparseable THEN Undef ELSE value

\* ageRaw !== null ? Number.parseInt(ageRaw.trim(), 10) || 0 : 0
parseAge(ageRaw) ==
  IF ageRaw = Undef \/ ageRaw = Unparseable THEN 0 ELSE ageRaw

\* createCacheEntry; varyValues is filled in by get when it stores
createCacheEntryStoredAtEpoch(value, response, currentTime) ==
  [value |-> value,
   metadata |->
     [etag |-> response.etag,
      lastModified |-> response.lastModified,
      cacheControl |-> parseCacheControl(response.cc),
      responseDate |-> 0,
      storedAt |-> 0,
      ageHeader |-> parseAge(response.age),
      varyHeaders |-> response.vary,
      varyValues |-> NoValue,
      statusCode |-> response.status,
      expires |-> parseHttpDate(response.expires)]]

createCacheEntry(value, response, currentTime) ==
  [value |-> value,
   metadata |->
     [etag |-> response.etag,
      lastModified |-> response.lastModified,
      cacheControl |-> parseCacheControl(response.cc),
      responseDate |-> IF parseHttpDate(response.date) # Undef
                       THEN parseHttpDate(response.date) ELSE currentTime,
      storedAt |-> currentTime,
      ageHeader |-> parseAge(response.age),
      varyHeaders |-> response.vary,
      varyValues |-> NoValue,
      statusCode |-> response.status,
      expires |-> parseHttpDate(response.expires)]]

\* refreshCacheEntry: value and the spread metadata (statusCode, varyValues)
\* stay; Cache-Control, ETag, Last-Modified, Expires, Vary are taken from
\* the 304 when it carries them; responseDate, storedAt and ageHeader are
\* always computed anew.
refreshCacheEntryKeepsMetadata(existing, response, currentTime) ==
  [value |-> existing.value,
   metadata |-> [existing.metadata EXCEPT !.storedAt = currentTime]]

refreshCacheEntry(existing, response, currentTime) ==
  [value |-> existing.value,
   metadata |->
     [existing.metadata EXCEPT
        !.cacheControl = IF response.cc # <<>>
                         THEN parseCacheControl(response.cc) ELSE @,
        !.etag = IF response.etag # NoValue THEN response.etag ELSE @,
        !.lastModified = IF response.lastModified # Undef
                         THEN response.lastModified ELSE @,
        !.responseDate = IF parseHttpDate(response.date) # Undef
                         THEN parseHttpDate(response.date) ELSE currentTime,
        !.storedAt = currentTime,
        !.ageHeader = parseAge(response.age),
        !.expires = IF response.expires # Undef
                    THEN parseHttpDate(response.expires) ELSE @,
        !.varyHeaders = IF response.vary # NoValue
                        THEN response.vary ELSE @]]

\* Vary matcher: "*" never matches; otherwise the captured value of the
\* listed header must equal the request's value.
varyMatches(varyValues, varyHeaders, requestValue) ==
  IF varyHeaders = NoValue THEN TRUE
  ELSE IF varyHeaders = "*" THEN FALSE
  ELSE varyValues = requestValue

\* the Accept header each caller sends
RequestHeader(c) == IF c = "a" THEN "x" ELSE "y"

\* clampTTL with the minimumTTL / maximumTTL overrides
clampTTL(ttl, overrides) ==
  LET lo == IF overrides.minimumTTL # Undef
            THEN Max(ttl, overrides.minimumTTL) ELSE ttl
  IN  IF overrides.maximumTTL # Undef
      THEN Min(lo, overrides.maximumTTL) ELSE lo

\* ------------------------------------------------------------ cache store
\* CacheStore.set: ttl > 0 expires at floor(now/1000) + ttl (epoch seconds),
\* ttl = 0 never expires, ttl < 0 is already expired.
CacheSet(entry, ttlSeconds, currentTime) ==
  [entry |-> entry,
   ttl |-> IF ttlSeconds < 0 THEN currentTime \div 1000
           ELSE IF ttlSeconds = 0 THEN 0
           ELSE (currentTime \div 1000) + ttlSeconds]

\* CacheStore.get: an item whose ttl > 0 has passed reads as absent
CacheGet(item, currentTime) ==
  IF item = NoEntry THEN NoEntry
  ELSE IF item.ttl > 0 /\ (currentTime \div 1000) >= item.ttl THEN NoEntry
  ELSE item.entry

\* ----------------------------------------------------------- dedupe store
\* A job of the one fingerprint: status and stored result.
NoJob == [status |-> "absent", result |-> NoValue]

\* waitFor on a job that is not pending: the stored value of a completed
\* job, undefined for an absent or failed one.
WaitForSettledValue(j) ==
  IF j.status = "completed" THEN j.result ELSE NoValue

\* registerOrJoin: TRUE when the caller becomes the owner.
\*   dynamo: conditional put, attribute_not_exists OR status <> pending
\*   memory: owner only when no job exists for the hash
RegisterIsOwner(kind, j) ==
  IF kind = "dynamo" THEN j.status # "pending" ELSE j.status = "absent"

\* complete(hash, value): [job, settle] - the job afterwards and whether
\* the waiters' promise is settled with the value.
DedupeComplete(kind, j, value) ==
  IF kind = "dynamo"
  THEN IF j.status = "completed" THEN [job |-> j, settle |-> FALSE]
       ELSE [job |-> [status |-> "completed", result |-> value],
             settle |-> TRUE]
  ELSE IF j.status = "pending"
       THEN [job |-> [status |-> "completed", result |-> value],
             settle |-> TRUE]
       ELSE [job |-> j, settle |-> FALSE]

\* fail(hash, error): dynamo updates the status unconditionally and keeps
\* the result attribute; memory rejects a promise that is still pending.
DedupeFailSkip(kind, j) ==
  [job |-> j, settle |-> FALSE]

DedupeFail(kind, j) ==
  IF kind = "dynamo"
  THEN [job |-> [j EXCEPT !.status = "failed"], settle |-> TRUE]
  ELSE IF j.status = "pending"
       THEN [job |-> [j EXCEPT !.status = "failed"], settle |-> TRUE]
       ELSE [job |-> j, settle |-> FALSE]


\* ------------------------------------------------------------------ state
VARIABLES
  cfg,       \* stores and options the client was constructed with
  now,       \* Date.now()
  cooldown,  \* serverCooldowns.get(origin); 0 when the map has no entry
  cache,     \* the cache store's item for the fingerprint, or NoEntry
  job,       \* the dedupe store's job for the fingerprint
  pc,        \* where each get call is
  stale,     \* staleEntry of each call
  cand,      \* staleCandidate of each call is set
  timer,     \* startedAt / wakeAt of the wait a call is in
  already,   \* alreadyRecordedRateLimit of each call
  resp,      \* the response a call holds between fetch and cache write
  result,    \* what each call returned or threw
  reval,     \* pendingRevalidations: the entry each running task captured
  h,         \* per call: what it did (transport calls, store calls, waits)
  attempt,   \* executeFetch's loop counter of each call
  fin,       \* arguments of the pure function under study (NoValue in Spec)
  fout,      \* its result, NoValue before it is applied
  store      \* the store under study in the store specifications

vars == <<cfg, now, cooldown, cache, job, pc, stale, cand, timer, already,
          resp, result, reval, h, attempt, fin, fout, store>>

\* retry: false / no retry option; maxAttempts = 1
NoRetry == [enabled |-> FALSE]

\* resolveRetryConfig of a retry option without onRetry / retryCondition
Retry(maxRetries, baseDelay, maxDelay, jitter) ==
  [enabled |-> TRUE, maxRetries |-> maxRetries, baseDelay |-> baseDelay,
   maxDelay |-> maxDelay, jitter |-> jitter]

NoOverrides == [minimumTTL |-> Undef, maximumTTL |-> Undef]

Config(who, cacheOn, dedupeKind, rl, throw, maxWait, ignNoCache, ignNoStore) ==
  [callers |-> who, cache |-> cacheOn, dedupe |-> dedupeKind,
   rateLimit |-> rl, throwOnRateLimit |-> throw, maxWaitTime |-> maxWait,
   ignoreNoCache |-> ignNoCache, ignoreNoStore |-> ignNoStore,
   errorHandler |-> FALSE, responseHandler |-> FALSE, signal |-> FALSE,
   retry |-> NoRetry]

\* rateLimit: "none" no store, "check" canProceed + record, "acquire" atomic
Configs ==
  { Config(Callers, FALSE, "memory", "none", TRUE, 1000, FALSE, FALSE),
    Config(Callers, FALSE, "dynamo", "none", TRUE, 1000, FALSE, FALSE),
    [Config({"a", "b"}, TRUE, "dynamo", "check", TRUE, 1000, FALSE, FALSE)
       EXCEPT !.errorHandler = TRUE],
    Config({"a", "b"}, TRUE, "dynamo", "acquire", FALSE, 1000, FALSE, FALSE),
    Config({"a", "b"}, TRUE, "memory", "check", FALSE, 500, TRUE, TRUE),
    [Config({"a"}, TRUE, "dynamo", "check", FALSE, 1000, FALSE, FALSE)
       EXCEPT !.errorHandler = TRUE, !.responseHandler = TRUE,
              !.signal = TRUE, !.retry = Retry(1, 1000, 30000, "none")],
    [Config({"a", "b"}, FALSE, "memory", "none", TRUE, 1000, FALSE, FALSE)
       EXCEPT !.signal = TRUE, !.retry = Retry(1, 1000, 30000, "full")] }

Directives(toks) == [value |-> "v0", metadata |->
  [etag |-> "e0", lastModified |-> Undef,
   cacheControl |-> parseCacheControl(toks),
   responseDate |-> 0, storedAt |-> 0, ageHeader |-> 0,
   varyHeaders |-> NoValue, varyValues |-> NoValue,
   statusCode |-> 200, expires |-> Undef]]

\* entries an earlier run of the client left in the cache store at time 0
InitEntries ==
  { Directives(<<Tok("max-age", 1)>>),
    Directives(<<Tok("max-age", 0), Tok("must-revalidate", Undef)>>),
    Directives(<<Tok("no-cache", Undef), Tok("max-age", 1)>>),
    Directives(<<Tok("max-age", 0), Tok("stale-while-revalidate", 2)>>),
    Directives(<<Tok("max-age", 0), Tok("stale-if-error", 2)>>),
    [Directives(<<Tok("max-age", 1)>>) EXCEPT
       !.metadata.varyHeaders = "accept", !.metadata.varyValues = "x"],
    [Directives(<<Tok("max-age", 1)>>) EXCEPT
       !.metadata.varyHeaders = "*", !.metadata.varyValues = "x"] }

StoreTTL(entry) ==
  clampTTL(calculateStoreTTL(entry.metadata, DefaultCacheTTL), NoOverrides)

\* what the transport can answer; "network" is a thrown TypeError
Response(status, cc, retryAfter, body) ==
  [status |-> status, cc |-> cc, retryAfter |-> retryAfter, body |-> body,
   etag |-> IF status \in {200, 304} THEN "e1" ELSE NoValue,
   date |-> Undef, age |-> Undef, lastModified |-> Undef,
   expires |-> Undef, vary |-> NoValue]

Responses ==
  { Response(200, <<Tok("max-age", 1)>>, Undef, "v1"),
    Response(200, <<Tok("max-age", 0), Tok("must-revalidate", Undef)>>,
             Undef, "v1"),
    Response(200, <<Tok("no-store", Undef)>>, Undef, "v1"),
    Response(200, <<>>, 1, "v1"),
    Response(200, <<>>, Undef, NoValue),
    Response(304, <<>>, Undef, NoValue),
    Response(304, <<Tok("no-store", Undef)>>, Undef, NoValue),
    Response(404, <<>>, Undef, NoValue),
    Response(429, <<>>, 1, NoValue),
    Response(500, <<>>, Undef, NoValue),
    Response(0, <<>>, Undef, NoValue) }

IsNetworkFailure(r) == r.status = 0
ResponseOk(r) == r.status >= 200 /\ r.status <= 299

\* fetches: transport invocations; owner / joiner: what registerOrJoin
\* answered, joinedPending: it answered isOwner=false while the job was
\* pending; recs / acqs: rateLimit.record calls and successful acquires;
\* sleptCd / sleptRl: ms slept in the cooldown and the admission waits,
\* sleptRetryCd: in the cooldown waits before a retry;
\* polls: blocked answers of the rate-limit store; cls: the cache phase's
\* classification and jobAtCls the dedupe job's status at that moment
\* ("superseded" once a later owner has registered the job anew);
\* retriedAfter: the statuses (0: network failure) after which the call
\* went on to another attempt;
\* failCalls: dedupe.fail calls; freshAtStart: a fresh matching entry was
\* in the cache when get was called; completeArg: the value the call gave
\* dedupe.complete; revalStatus / revalResp: how its background revalidation
\* ended and the response it got; caught: the error get's catch block got;
\* abortedIn: where the call was when its signal fired; handlerThrew:
\* errorHandler threw instead of returning an error
NoHist == [fetches |-> 0, owner |-> FALSE, joiner |-> FALSE,
           joinedPending |-> FALSE, recs |-> 0,
           acqs |-> 0, sleptCd |-> 0, sleptRl |-> 0, polls |-> 0,
           sleptRetryCd |-> 0,
           cls |-> "none", jobAtCls |-> "none", failCalls |-> 0,
           freshAtStart |-> FALSE, completeArg |-> "none",
           revalStatus |-> "none", revalResp |-> NoValue,
           caught |-> "none", abortedIn |-> "none", handlerThrew |-> FALSE,
           retriedAfter |-> {}]
NoTimer == [startedAt |-> 0, wakeAt |-> 0]
NoResult == [kind |-> "none", val |-> NoValue, src |-> "none",
             thrown |-> "none", handlerCalls |-> 0]

Init ==
  /\ cfg \in Configs
  /\ now = 0
  /\ cooldown = 0
  /\ cache \in IF cfg.cache
               THEN {NoEntry} \cup {CacheSet(e, StoreTTL(e), 0) : e \in InitEntries}
               ELSE {NoEntry}
  /\ job = NoJob
  /\ pc = [c \in Callers |-> "idle"]
  /\ stale = [c \in Callers |-> NoEntry]
  /\ cand = [c \in Callers |-> FALSE]
  /\ timer = [c \in Callers |-> NoTimer]
  /\ already = [c \in Callers |-> FALSE]
  /\ resp = [c \in Callers |-> NoResp]
  /\ result = [c \in Callers |-> NoResult]
  /\ reval = [c \in Callers |-> NoEntry]
  /\ h = [c \in Callers |-> NoHist]
  /\ attempt = [c \in Callers |-> 1]
  /\ fin = NoValue
  /\ fout = NoValue
  /\ store = NoValue


\* ---------------------------------------------------------------- helpers
Final == {"done", "failed"}
Waiting == {"wait1", "wait2"}

\* what a call gave its caller.  src: where the value came from, or the
\* error raised inside get; thrown: what the catch block threw for it
\* ("same" the error itself, "HttpClientError" a new domain error with its
\* message, "defaultHttpError" the domain error of an HTTP context,
\* "handlerResult" / "handlerThrown" what errorHandler returned / threw);
\* handlerCalls: calls of errorHandler
Value(v, src) ==
  [kind |-> "value", val |-> v, src |-> src, thrown |-> "none",
   handlerCalls |-> 0]

Thrown(err, t) ==
  [kind |-> "error", val |-> NoValue, src |-> err, thrown |-> t.thrown,
   handlerCalls |-> t.handlerCalls]

\* A call blocked in waitFor continues when the job's promise settles:
\* with a value it returns it; with undefined the first waitFor goes on to
\* registerOrJoin and the joiner's waitFor falls through to the rate limit.
WakeJoinerPc(v) == IF v # NoValue THEN "done" ELSE "rate"

WakePc(p, v) ==
  IF p = "wait1" THEN (IF v # NoValue THEN "done" ELSE "register")
  ELSE IF p = "wait2" THEN WakeJoinerPc(v)
  ELSE p

\* locals of a call that has returned are dropped
Locals(nextPc) ==
  /\ stale' = [d \in Callers |-> IF nextPc[d] \in Final THEN NoEntry ELSE stale[d]]
  /\ cand' = [d \in Callers |-> IF nextPc[d] \in Final THEN FALSE ELSE cand[d]]
  /\ timer' = [d \in Callers |-> IF nextPc[d] \in Final THEN NoTimer ELSE timer[d]]
  /\ already' = [d \in Callers |-> IF nextPc[d] \in Final THEN FALSE ELSE already[d]]
  /\ resp' = [d \in Callers |-> IF nextPc[d] \in Final THEN NoResp ELSE resp[d]]
  /\ attempt' = [d \in Callers |-> IF nextPc[d] \in Final THEN 1 ELSE attempt[d]]

\* call c ends with res after a dedupe complete/fail whose outcome is r;
\* v is the value the waiters' promise settles with.
EndWith(c, r, v, res) ==
  LET nextPc == [d \in Callers |->
                   IF d = c THEN (IF res.kind = "value" THEN "done" ELSE "failed")
                   ELSE IF r.settle THEN WakePc(pc[d], v) ELSE pc[d]]
  IN  /\ job' = r.job
      /\ pc' = nextPc
      /\ result' = [d \in Callers |->
                      IF d = c THEN res
                      ELSE IF r.settle /\ pc[d] \in Waiting /\ nextPc[d] = "done"
                      THEN Value(v, "joined")
                      ELSE IF r.settle /\ pc[d] \in Waiting /\ nextPc[d] = "failed"
                      THEN Thrown("upstream", [thrown |-> "HttpClientError",
                                               handlerCalls |-> 0])
                      ELSE result[d]]
      /\ Locals(nextPc)

\* call c returns v without touching the dedupe store
Return(c, v, src) ==
  LET nextPc == [pc EXCEPT ![c] = "done"]
  IN  /\ pc' = nextPc
      /\ result' = [result EXCEPT ![c] = Value(v, src)]
      /\ Locals(nextPc)
      /\ job' = job

Goto(c, next) ==
  /\ pc' = [pc EXCEPT ![c] = next]
  /\ UNCHANGED <<result, job, attempt>>

\* Errors raised inside get, by kind:
\*   "http" / "server": the HttpErrorContext of a 4xx / 5xx response
\*   "network": the TypeError fetch rejects with
\*   "abort": the AbortError of the signal
\*   "rateLimited" / "budgetExhausted": the Errors of the two enforcers
\*   "handlerError" / "handlerTypeError" / "handlerDomain": an Error, a
\*     TypeError, an HttpClientError thrown by responseHandler
isHttpErrorContext(err) == err \in {"http", "server"}

IsTypeError(err) == err \in {"network", "handlerTypeError"}

isServerErrorOrNetworkFailureAnyHttp(err) ==
  isHttpErrorContext(err) \/ IsTypeError(err)

isServerErrorOrNetworkFailure(err) ==
  (isHttpErrorContext(err) /\ err = "server") \/ IsTypeError(err)

\* generateClientError: errorHandler for an HTTP context, else a new
\* HttpClientError; handlerThrows: errorHandler throws instead of returning
generateClientErrorHandlesAll(err, errorHandler, handlerThrows) ==
  IF errorHandler
  THEN [thrown |-> IF handlerThrows THEN "handlerThrown" ELSE "handlerResult",
        handlerCalls |-> 1]
  ELSE [thrown |-> "HttpClientError", handlerCalls |-> 0]

generateClientError(err, errorHandler, handlerThrows) ==
  IF isHttpErrorContext(err)
  THEN IF errorHandler
       THEN [thrown |-> IF handlerThrows THEN "handlerThrown"
                        ELSE "handlerResult",
             handlerCalls |-> 1]
       ELSE [thrown |-> "defaultHttpError", handlerCalls |-> 0]
  ELSE [thrown |-> "HttpClientError", handlerCalls |-> 0]

\* the throw statements that end the catch block
RethrowWrapsAbort(err, errorHandler, handlerThrows) ==
  IF err = "handlerDomain" THEN [thrown |-> "same", handlerCalls |-> 0]
  ELSE generateClientError(err, errorHandler, handlerThrows)

Rethrow(err, errorHandler, handlerThrows) ==
  IF err = "abort" THEN [thrown |-> "same", handlerCalls |-> 0]
  ELSE IF err = "handlerDomain" THEN [thrown |-> "same", handlerCalls |-> 0]
  ELSE generateClientError(err, errorHandler, handlerThrows)

\* the catch block of get: stale-if-error fallback, else dedupe.fail + throw
CatchThrowsAsCaught(c, err, hc) ==
  /\ EndWith(c, DedupeFail(cfg.dedupe, job), NoValue,
             Thrown(err, [thrown |-> "same", handlerCalls |-> 0]))
  /\ h' = [h EXCEPT ![c] = [hc EXCEPT !.failCalls = @ + 1, !.caught = err]]

Catch(c, err, hc) ==
  IF cand[c] /\ isServerErrorOrNetworkFailure(err)
  THEN /\ EndWith(c, DedupeComplete(cfg.dedupe, job, stale[c].value),
                  stale[c].value, Value(stale[c].value, "stale-if-error"))
       /\ h' = [h EXCEPT ![c] = [hc EXCEPT !.completeArg = stale[c].value,
                                           !.caught = err]]
  ELSE \E handlerThrows \in
            IF cfg.errorHandler /\ Rethrow(err, TRUE, FALSE).handlerCalls = 1
            THEN BOOLEAN ELSE {FALSE} :
         /\ EndWith(c, DedupeFail(cfg.dedupe, job), NoValue,
                    Thrown(err, Rethrow(err, cfg.errorHandler, handlerThrows)))
         /\ h' = [h EXCEPT ![c] = [hc EXCEPT !.failCalls = @ + 1,
                                             !.caught = err,
                                             !.handlerThrew = handlerThrows]]

\* parseRetryAfterMs and the engage rule of applyServerRateLimitHints:
\* the new serverCooldowns entry after a response
parseRetryAfterMs(value) ==
  IF value # Undef /\ value >= 0 THEN value * 1000 ELSE Undef

applyServerRateLimitHints(cd, response, currentTime) ==
  LET retryAfterMs == parseRetryAfterMs(response.retryAfter)
  IN  IF IsNetworkFailure(response) THEN cd
      ELSE IF retryAfterMs = Undef \/ retryAfterMs <= 0 THEN cd
      ELSE currentTime + retryAfterMs


\* ---------------------------------------------------------------- actions
\* remainingWaitBudgetMs = maxWaitTime - (Date.now() - startedAt), with
\* startedAt taken when the enforcing function was entered
RemainingWaitBudgetNoElapsed(maxWaitTime, startedAt, currentTime) ==
  maxWaitTime

RemainingWaitBudgetMs(maxWaitTime, startedAt, currentTime) ==
  maxWaitTime - (currentTime - startedAt)

\* the cache phase: what the entry the store returned classifies as
ClassifyIgnoresVary(c, entry, currentTime) ==
  IF entry = NoEntry THEN "miss"
  ELSE getFreshnessStatus(entry.metadata, currentTime)

Classify(c, entry, currentTime) ==
  IF entry = NoEntry THEN "miss"
  ELSE IF ~varyMatches(entry.metadata.varyValues,
                       entry.metadata.varyHeaders, RequestHeader(c))
  THEN "vary-miss"
  ELSE getFreshnessStatus(entry.metadata, currentTime)

\* the switch over the freshness status: "return" the cached value,
\* "swr" return it and revalidate in the background, "miss" fetch without
\* a stale entry, "fetch" fetch with staleEntry set
CacheDecisionFreshFallsThrough(status, ignoreNoCache) ==
  IF status = "no-cache" /\ ignoreNoCache THEN "return"
  ELSE IF status = "stale-while-revalidate" THEN "swr"
  ELSE IF status \in {"miss", "vary-miss"} THEN "miss"
  ELSE "fetch"

CacheDecision(status, ignoreNoCache) ==
  IF status = "fresh" THEN "return"
  ELSE IF status = "no-cache" /\ ignoreNoCache THEN "return"
  ELSE IF status = "stale-while-revalidate" THEN "swr"
  ELSE IF status \in {"miss", "vary-miss"} THEN "miss"
  ELSE "fetch"

CooldownStepThrowsWhenForced(c, startedAt, hc) ==
  LET forceWait == pc[c] \in {"retrywait", "retrycd"}
      waitMs == cooldown - now
      remainingWaitBudgetMs ==
        RemainingWaitBudgetMs(cfg.maxWaitTime, startedAt, now)
      sleep == Min(waitMs, remainingWaitBudgetMs)
  IN  IF cooldown = 0 \/ waitMs <= 0
      THEN /\ cooldown' = 0
           /\ Goto(c, IF forceWait THEN "fetch" ELSE "cache")
           /\ timer' = [timer EXCEPT ![c] = NoTimer]
           /\ h' = [h EXCEPT ![c] = hc]
           /\ UNCHANGED <<stale, cand, already, resp>>
      ELSE IF cfg.throwOnRateLimit
      THEN /\ Catch(c, "rateLimited", hc)
           /\ UNCHANGED cooldown
      ELSE IF remainingWaitBudgetMs <= 0
      THEN /\ Catch(c, "budgetExhausted", hc)
           /\ UNCHANGED cooldown
      ELSE /\ Goto(c, IF forceWait THEN "retrycd" ELSE "cdwait")
           /\ timer' = [timer EXCEPT ![c] =
                          [startedAt |-> startedAt, wakeAt |-> now + sleep]]
           /\ h' = [h EXCEPT ![c] =
                      IF forceWait THEN [hc EXCEPT !.sleptRetryCd = @ + sleep]
                      ELSE [hc EXCEPT !.sleptCd = @ + sleep]]
           /\ UNCHANGED <<cooldown, stale, cand, already, resp>>

\* enforceServerCooldown, one pass of its loop, for a call that started the
\* loop at startedAt; forceWait is set on the passes executeFetch makes
\* before a retry.
CooldownStep(c, startedAt, hc) ==
  LET forceWait == pc[c] \in {"retrywait", "retrycd"}
      waitMs == cooldown - now
      remainingWaitBudgetMs ==
        RemainingWaitBudgetMs(cfg.maxWaitTime, startedAt, now)
      sleep == Min(waitMs, remainingWaitBudgetMs)
  IN  IF cooldown = 0 \/ waitMs <= 0
      THEN /\ cooldown' = 0
           /\ Goto(c, IF forceWait THEN "fetch" ELSE "cache")
           /\ timer' = [timer EXCEPT ![c] = NoTimer]
           /\ h' = [h EXCEPT ![c] = hc]
           /\ UNCHANGED <<stale, cand, already, resp>>
      ELSE IF cfg.throwOnRateLimit /\ ~forceWait
      THEN /\ Catch(c, "rateLimited", hc)
           /\ UNCHANGED cooldown
      ELSE IF remainingWaitBudgetMs <= 0
      THEN /\ Catch(c, "budgetExhausted", hc)
           /\ UNCHANGED cooldown
      ELSE /\ Goto(c, IF forceWait THEN "retrycd" ELSE "cdwait")
           /\ timer' = [timer EXCEPT ![c] =
                          [startedAt |-> startedAt, wakeAt |-> now + sleep]]
           /\ h' = [h EXCEPT ![c] =
                      IF forceWait THEN [hc EXCEPT !.sleptRetryCd = @ + sleep]
                      ELSE [hc EXCEPT !.sleptCd = @ + sleep]]
           /\ UNCHANGED <<cooldown, stale, cand, already, resp>>

\* get(url) is called: the first pass of enforceServerCooldown
Start(c) ==
  /\ pc[c] = "idle"
  /\ c \in cfg.callers
  /\ CooldownStep(c, now,
       [h[c] EXCEPT !.freshAtStart =
          cfg.cache /\ Classify(c, CacheGet(cache, now), now) = "fresh"])
  /\ UNCHANGED <<cfg, now, cache, reval>>
  /\ UNCHANGED <<fin, fout, store>>

\* the cooldown sleep ends: the loop re-checks the map
CooldownWake(c) ==
  /\ pc[c] \in {"cdwait", "retrycd"}
  /\ now >= timer[c].wakeAt
  /\ CooldownStep(c, timer[c].startedAt, h[c])
  /\ UNCHANGED <<cfg, now, cache, reval>>
  /\ UNCHANGED <<fin, fout, store>>

\* the retry sleep ends: the next attempt starts with a forced cooldown pass
RetryWake(c) ==
  /\ pc[c] = "retrywait"
  /\ now >= timer[c].wakeAt
  /\ CooldownStep(c, now, h[c])
  /\ UNCHANGED <<cfg, now, cache, reval>>
  /\ UNCHANGED <<fin, fout, store>>

\* the caller's AbortSignal fires while the call is in wait() or in fetch:
\* the promise rejects with an AbortError
Abort(c) ==
  /\ cfg.signal
  /\ pc[c] \in {"cdwait", "rlwait", "retrywait", "retrycd", "inflight"}
  /\ Catch(c, "abort", [h[c] EXCEPT !.abortedIn = pc[c]])
  /\ UNCHANGED <<cfg, now, cooldown, cache, reval>>
  /\ UNCHANGED <<fin, fout, store>>

\* 1. Cache: cache.get (an expired item is deleted), Vary check,
\* freshness switch
CacheLookup(c) ==
  /\ pc[c] = "cache"
  /\ LET entry == IF cfg.cache THEN CacheGet(cache, now) ELSE NoEntry
         status == Classify(c, entry, now)
         decision == CacheDecision(status, cfg.ignoreNoCache)
     IN  /\ h' = [h EXCEPT ![c].cls = status, ![c].jobAtCls = job.status]
         /\ cache' = IF entry = NoEntry THEN NoEntry ELSE cache
         /\ CASE decision = "return" ->
                   /\ Return(c, entry.value, "cache")
                   /\ UNCHANGED reval
              [] decision = "swr" ->
                   /\ Return(c, entry.value, "cache")
                   /\ reval' = [reval EXCEPT ![c] = entry]
              [] decision = "miss" ->
                   /\ Goto(c, "dedupe1")
                   /\ UNCHANGED <<stale, cand, timer, already, resp, reval>>
              [] decision = "fetch" ->
                   /\ Goto(c, "dedupe1")
                   /\ stale' = [stale EXCEPT ![c] = entry]
                   /\ cand' = [cand EXCEPT ![c] = (status = "stale-if-error")]
                   /\ UNCHANGED <<timer, already, resp, reval>>
  /\ UNCHANGED <<cfg, now, cooldown>>
  /\ UNCHANGED <<fin, fout, store>>

\* 2. Deduplication: dedupe.waitFor(hash), before and after registerOrJoin
DedupeWaitFor(c) ==
  /\ pc[c] \in {"dedupe1", "dedupe2"}
  /\ LET v == WaitForSettledValue(job)
     IN  IF job.status = "pending"
         THEN /\ Goto(c, IF pc[c] = "dedupe1" THEN "wait1" ELSE "wait2")
              /\ UNCHANGED <<stale, cand, timer, already, resp>>
         ELSE IF v # NoValue
         THEN Return(c, v, "dedupe-stored")
         ELSE /\ Goto(c, WakePc(IF pc[c] = "dedupe1" THEN "wait1" ELSE "wait2", v))
              /\ UNCHANGED <<stale, cand, timer, already, resp>>
  /\ UNCHANGED <<cfg, now, cooldown, cache, reval, h>>
  /\ UNCHANGED <<fin, fout, store>>

\* dedupe.registerOrJoin(hash)
Register(c) ==
  /\ pc[c] = "register"
  /\ IF RegisterIsOwner(cfg.dedupe, job)
     THEN /\ job' = [status |-> "pending", result |-> NoValue]
          /\ pc' = [pc EXCEPT ![c] = "rate"]
          /\ h' = [d \in Callers |->
                     IF d = c THEN [h[c] EXCEPT !.owner = TRUE]
                     ELSE IF h[d].jobAtCls = "completed"
                     THEN [h[d] EXCEPT !.jobAtCls = "superseded"]
                     ELSE h[d]]
     ELSE /\ job' = job
          /\ pc' = [pc EXCEPT ![c] = "dedupe2"]
          /\ h' = [h EXCEPT ![c].joiner = TRUE,
                            ![c].joinedPending = (job.status = "pending")]
  /\ UNCHANGED <<cfg, now, cooldown, cache, stale, cand, timer, already,
                 resp, result, reval>>
  /\ UNCHANGED <<attempt, fin, fout, store>>


\* what the rate-limit store may suggest from getWaitTime
SuggestedWaits == {0, 1000}

\* alreadyRecordedRateLimit: enforceStoreRateLimit returns hasAtomicAcquire
HasAtomicAcquireNever(rl) == FALSE

HasAtomicAcquire(rl) == rl = "acquire"

\* 3. Rate limiting: enforceStoreRateLimit, one call of canProceedNow and
\* what follows it.  The store is a black box: it may answer either way.
RateStep(c, startedAt) ==
  \E ok \in BOOLEAN, suggestedWaitMs \in SuggestedWaits :
    LET remainingWaitBudgetMs ==
          RemainingWaitBudgetMs(cfg.maxWaitTime, startedAt, now)
        waitTime == IF suggestedWaitMs > 0
                    THEN Min(suggestedWaitMs, remainingWaitBudgetMs)
                    ELSE Min(BlockedBackoffMs, remainingWaitBudgetMs)
        acquired == IF ok /\ cfg.rateLimit = "acquire" THEN 1 ELSE 0
        hc == [h[c] EXCEPT !.acqs = @ + acquired,
                           !.polls = IF ok THEN @ ELSE @ + 1]
    IN  /\ ~ok => h[c].polls < MaxPolls
        /\ ok => suggestedWaitMs = 0
        /\ cfg.throwOnRateLimit => suggestedWaitMs = 0
        /\ IF ok
           THEN /\ Goto(c, "fetch")
                /\ already' = [already EXCEPT ![c] = HasAtomicAcquire(cfg.rateLimit)]
                /\ timer' = [timer EXCEPT ![c] = NoTimer]
                /\ h' = [h EXCEPT ![c] = hc]
                /\ UNCHANGED <<stale, cand, resp>>
           ELSE IF cfg.throwOnRateLimit
           THEN Catch(c, "rateLimited", hc)
           ELSE IF remainingWaitBudgetMs <= 0
           THEN Catch(c, "budgetExhausted", hc)
           ELSE /\ Goto(c, "rlwait")
                /\ timer' = [timer EXCEPT ![c] =
                     [startedAt |-> startedAt, wakeAt |-> now + waitTime]]
                /\ h' = [h EXCEPT ![c] = [hc EXCEPT !.sleptRl = @ + waitTime]]
                /\ UNCHANGED <<stale, cand, already, resp>>

RateLimit(c) ==
  /\ pc[c] = "rate"
  /\ IF cfg.rateLimit = "none"
     THEN /\ Goto(c, "fetch")
          /\ UNCHANGED <<stale, cand, timer, already, resp, h>>
     ELSE RateStep(c, now)
  /\ UNCHANGED <<cfg, now, cooldown, cache, reval>>
  /\ UNCHANGED <<fin, fout, store>>

\* the admission sleep ends: the loop polls the store again
RateWake(c) ==
  /\ pc[c] = "rlwait"
  /\ now >= timer[c].wakeAt
  /\ RateStep(c, timer[c].startedAt)
  /\ UNCHANGED <<cfg, now, cooldown, cache, reval>>
  /\ UNCHANGED <<fin, fout, store>>

\* 4. executeFetch hands the request to the transport (retries disabled:
\* no retry option was given, so maxAttempts = 1)
FetchSend(c) ==
  /\ pc[c] = "fetch"
  /\ pc' = [pc EXCEPT ![c] = "inflight"]
  /\ h' = [h EXCEPT ![c].fetches = @ + 1]
  /\ UNCHANGED <<cfg, now, cooldown, cache, job, stale, cand, timer,
                 already, resp, result, reval>>
  /\ UNCHANGED <<attempt, fin, fout, store>>

ErrorKind(r) ==
  IF IsNetworkFailure(r) THEN "network"
  ELSE IF r.status >= 500 THEN "server"
  ELSE "http"

\* 7. Record the request for rate limiting: the number of record calls
RecordCalls(rl, alreadyRecorded) ==
  IF rl # "none" /\ ~alreadyRecorded THEN 1 ELSE 0

\* RETRYABLE_STATUS_CODES and isRetryableRequest without retryCondition
RETRYABLE_STATUS_CODES == {429, 500, 502, 503, 504}

isRetryableRequestAnyStatus(err, status) == isHttpErrorContext(err) \/ IsTypeError(err)

isRetryableRequest(err, status) ==
  IF isHttpErrorContext(err) THEN status \in RETRYABLE_STATUS_CODES
  ELSE IsTypeError(err)

RECURSIVE Pow2(_)
Pow2(n) == IF n <= 0 THEN 1 ELSE 2 * Pow2(n - 1)

\* calculateRetryDelay; Math.random() = rnd / RandomDen
calculateRetryDelayLocalOnly(attemptNo, baseDelay, maxDelay, jitter, retryAfterMs, rnd) ==
  LET cappedDelay == Min(baseDelay * Pow2(attemptNo - 1), maxDelay)
  IN  IF jitter = "full" THEN (rnd * cappedDelay) \div RandomDen
      ELSE cappedDelay

calculateRetryDelay(attemptNo, baseDelay, maxDelay, jitter, retryAfterMs, rnd) ==
  LET exponentialDelay == baseDelay * Pow2(attemptNo - 1)
      cappedDelay == Min(exponentialDelay, maxDelay)
      jitteredDelay == IF jitter = "full"
                       THEN (rnd * cappedDelay) \div RandomDen
                       ELSE cappedDelay
  IN  IF retryAfterMs # Undef /\ retryAfterMs > jitteredDelay
      THEN retryAfterMs
      ELSE jitteredDelay

\* the values Math.random() takes for a jitter setting
Randoms(jitter) == IF jitter = "full" THEN 0..(RandomDen - 1) ELSE {0}

\* executeFetch: attempt < maxAttempts and the failure is retryable
ShouldRetry(c, r) ==
  /\ cfg.retry.enabled
  /\ attempt[c] < cfg.retry.maxRetries + 1
  /\ isRetryableRequest(ErrorKind(r), r.status)

\* 6. responseHandler(data): it returns ("ok") or throws
HandlerOutcomes(responseHandler) ==
  IF responseHandler
  THEN {"ok", "handlerError", "handlerTypeError", "handlerDomain"}
  ELSE {"ok"}

\* the transport answers: server hints, 304 refresh + write back, error
\* context, or transformer/handler (none configured) + rateLimit.record
FetchReturn(c) ==
  /\ pc[c] = "inflight"
  /\ \E r \in Responses, handled \in HandlerOutcomes(cfg.responseHandler) :
       /\ (handled # "ok") => ResponseOk(r)
       /\ cooldown' = applyServerRateLimitHints(cooldown, r, now)
       /\ IF ~IsNetworkFailure(r) /\ r.status = 304 /\ stale[c] # NoEntry
          THEN LET refreshedEntry == refreshCacheEntry(stale[c], r, now)
               IN  /\ cache' = IF cfg.cache
                               THEN CacheSet(refreshedEntry,
                                             StoreTTL(refreshedEntry), now)
                               ELSE cache
                   /\ Goto(c, "complete")
                   /\ resp' = [resp EXCEPT ![c] =
                                 [r EXCEPT !.body = refreshedEntry.value]]
                   /\ UNCHANGED <<stale, cand, timer, already, h>>
          ELSE IF (IsNetworkFailure(r) \/ ~ResponseOk(r)) /\ ShouldRetry(c, r)
          THEN \E rnd \in Randoms(cfg.retry.jitter) :
                 LET retryAfterMs ==
                       IF isHttpErrorContext(ErrorKind(r))
                       THEN parseRetryAfterMs(r.retryAfter) ELSE Undef
                     delay == calculateRetryDelay(attempt[c],
                                cfg.retry.baseDelay, cfg.retry.maxDelay,
                                cfg.retry.jitter, retryAfterMs, rnd)
                 IN  /\ pc' = [pc EXCEPT ![c] = "retrywait"]
                     /\ attempt' = [attempt EXCEPT ![c] = @ + 1]
                     /\ timer' = [timer EXCEPT ![c] =
                          [startedAt |-> now, wakeAt |-> now + delay]]
                     /\ h' = [h EXCEPT ![c].retriedAfter =
                                @ \cup {r.status}]
                     /\ UNCHANGED <<cache, job, result, stale, cand,
                                    already, resp>>
          ELSE IF IsNetworkFailure(r) \/ ~ResponseOk(r)
          THEN /\ Catch(c, ErrorKind(r), h[c])
               /\ UNCHANGED cache
          ELSE IF handled # "ok"
          THEN /\ Catch(c, handled, h[c])
               /\ UNCHANGED cache
          ELSE /\ Goto(c, IF cfg.cache THEN "store" ELSE "complete")
               /\ resp' = [resp EXCEPT ![c] = r]
               /\ h' = [h EXCEPT ![c].recs =
                          @ + RecordCalls(cfg.rateLimit, already[c])]
               /\ UNCHANGED <<cache, stale, cand, timer, already>>
  /\ UNCHANGED <<cfg, now, reval>>
  /\ UNCHANGED <<fin, fout, store>>

\* 8. Cache the result
ShouldStore(cc, ignoreNoStore) == ~cc.noStore \/ ignoreNoStore

CacheWrite(c) ==
  /\ pc[c] = "store"
  /\ LET cc == parseCacheControl(resp[c].cc)
         entry == createCacheEntry(resp[c].body, resp[c], now)
     IN  cache' = IF ShouldStore(cc, cfg.ignoreNoStore)
                  THEN CacheSet(entry, StoreTTL(entry), now)
                  ELSE cache
  /\ Goto(c, "complete")
  /\ UNCHANGED <<cfg, now, cooldown, stale, cand, timer, already, resp,
                 reval, h>>
  /\ UNCHANGED <<fin, fout, store>>

\* 9. Mark deduplication as complete and return the result
Complete(c) ==
  /\ pc[c] = "complete"
  /\ EndWith(c, DedupeComplete(cfg.dedupe, job, resp[c].body), resp[c].body,
             Value(resp[c].body,
                   IF resp[c].status = 304 THEN "fetch-304" ELSE "fetch-200"))
  /\ h' = [h EXCEPT ![c].completeArg = resp[c].body]
  /\ UNCHANGED <<cfg, now, cooldown, cache, reval>>
  /\ UNCHANGED <<fin, fout, store>>

\* how backgroundRevalidate ends for a response: 304 refreshes the captured
\* entry, a 200 that passes the responseHandler replaces it, anything else
\* (and any throw) is swallowed
RevalOutcomeAcceptsErrors(r, handled) ==
  IF IsNetworkFailure(r) THEN "failed"
  ELSE IF r.status = 304 THEN "notModified"
  ELSE "ok"

RevalOutcome(r, handled) ==
  IF IsNetworkFailure(r) THEN "failed"
  ELSE IF r.status = 304 THEN "notModified"
  ELSE IF ResponseOk(r) /\ handled = "ok" THEN "ok"
  ELSE "failed"

\* the cache item after backgroundRevalidate handled the response
RevalidatedItemKeepsOld(item, entry, r, handled, currentTime) ==
  item

RevalidatedItem(item, entry, r, handled, currentTime) ==
  IF RevalOutcome(r, handled) = "notModified"
  THEN LET refreshed == refreshCacheEntry(entry, r, currentTime)
       IN  CacheSet(refreshed, StoreTTL(refreshed), currentTime)
  ELSE IF RevalOutcome(r, handled) = "ok"
  THEN LET newEntry == createCacheEntry(r.body, r, currentTime)
       IN  CacheSet(newEntry, StoreTTL(newEntry), currentTime)
  ELSE item

\* backgroundRevalidate settles: the transport answered the conditional
\* request the task sent when get scheduled it
RevalReturn(c) ==
  /\ reval[c] # NoEntry
  /\ \E r \in Responses, handled \in HandlerOutcomes(cfg.responseHandler) :
       /\ (handled # "ok") => (ResponseOk(r) /\ r.status # 304)
       /\ cooldown' = applyServerRateLimitHints(cooldown, r, now)
       /\ cache' = RevalidatedItem(cache, reval[c], r, handled, now)
       /\ h' = [h EXCEPT ![c].revalStatus = RevalOutcome(r, handled),
                         ![c].revalResp = r]
  /\ reval' = [reval EXCEPT ![c] = NoEntry]
  /\ UNCHANGED <<cfg, now, job, pc, stale, cand, timer, already, resp,
                 result>>
  /\ UNCHANGED <<attempt, fin, fout, store>>

\* time passes, up to the next timer that is due
Sleepers ==
  {c \in Callers : pc[c] \in {"cdwait", "rlwait", "retrywait", "retrycd"}}

Tick ==
  /\ \A c \in Sleepers : timer[c].wakeAt > now
  /\ \E step \in TickSteps :
       LET target == now + step
           due == {timer[c].wakeAt : c \in Sleepers} \cap (now + 1)..target
           next == IF due = {} THEN target
                   ELSE CHOOSE t \in due : \A u \in due : t <= u
       IN  /\ next <= MaxNow
           /\ now' = next
  /\ UNCHANGED <<cfg, cooldown, cache, job, pc, stale, cand, timer, already,
                 resp, result, reval, h>>
  /\ UNCHANGED <<attempt, fin, fout, store>>

Next ==
  \/ \E c \in Callers : Start(c)
  \/ \E c \in Callers : CooldownWake(c)
  \/ \E c \in Callers : CacheLookup(c)
  \/ \E c \in Callers : DedupeWaitFor(c)
  \/ \E c \in Callers : Register(c)
  \/ \E c \in Callers : RateLimit(c)
  \/ \E c \in Callers : RateWake(c)
  \/ \E c \in Callers : FetchSend(c)
  \/ \E c \in Callers : FetchReturn(c)
  \/ \E c \in Callers : CacheWrite(c)
  \/ \E c \in Callers : Complete(c)
  \/ \E c \in Callers : RevalReturn(c)
  \/ \E c \in Callers : RetryWake(c)
  \/ \E c \in Callers : Abort(c)
  \/ Tick

Spec == Init /\ [][Next]_vars

TypeOK ==
  /\ now \in 0..MaxNow
  /\ \A c \in Callers : pc[c] \in {"idle", "cdwait", "cache", "dedupe1",
       "wait1", "register", "dedupe2", "wait2", "rate", "rlwait", "fetch",
       "inflight", "retrywait", "retrycd", "store", "complete", "done",
       "failed"}
  /\ \A c \in Callers : attempt[c] \in 1..2
  /\ job.status \in {"absent", "pending", "completed", "failed"}


\* ----------------------------------------------------------------- claims
InFlight == {c \in Callers : pc[c] = "inflight"}

RECURSIVE SumFetches(_)
SumFetches(S) ==
  IF S = {} THEN 0
  ELSE LET c == CHOOSE x \in S : TRUE
       IN  h[c].fetches + SumFetches(S \ {c})

\* C1: at any moment at most one fetch to the transport is in flight for a
\* fingerprint among the callers that share the dedupe store.
C1_AtMostOneFetchInFlight == Cardinality(InFlight) <= 1

\* the owner of the job and the callers that joined it while it was pending
SingleFlightGroup == {c \in Callers : h[c].owner \/ h[c].joinedPending}

\* C2: with an in-memory dedupe store, concurrent callers of one fingerprint
\* (the owner and the callers that joined its pending job) invoke the
\* transport exactly once between them, and every one of them that got a
\* value got the value of that single fetch.
C2_TransportInvokedOnce ==
  cfg.dedupe = "memory" =>
    /\ SumFetches(SingleFlightGroup) <= 1
    /\ \A c, d \in SingleFlightGroup :
         (pc[c] = "done" /\ pc[d] = "done") => result[c].val = result[d].val

\* C3: a caller that registerOrJoin answered isOwner=false never invokes
\* the transport: when its waitFor resolves to nothing it fails instead.
C3_JoinerNeverFetches ==
  \A c \in Callers : h[c].joiner => h[c].fetches = 0

\* C4: whenever a get that owns the dedupe job ends in failure, it has
\* called fail for the fingerprint and in the state it leaves no caller is
\* still blocked in waitFor on the job.
C4_OwnerFailureSettlesJoiners ==
  [][\A c \in Callers :
       (h[c].owner /\ pc[c] \notin Final /\ pc'[c] = "failed")
         => /\ h'[c].failCalls = h[c].failCalls + 1
            /\ job'.status # "pending"
            /\ \A d \in Callers : pc'[d] \notin Waiting]_vars

\* an owner has failed and a caller that had joined its job has been
\* released from waitFor with an absent value
C4_Witness ==
  \E c, d \in Callers :
    /\ c # d
    /\ h[c].owner /\ pc[c] = "failed" /\ h[c].failCalls = 1
    /\ h[d].joinedPending /\ pc[d] = "rate" /\ job.status = "failed"

\* C5: while a server cooldown is engaged (its deadline lies in the
\* future) no request is handed to the transport, neither by a foreground
\* call nor by a background revalidation.
C5_NoFetchBeforeCooldownEnds ==
  [][\A c \in Callers :
       (h'[c].fetches > h[c].fetches \/ (reval[c] = NoEntry /\ reval'[c] # NoEntry))
         => (cooldown = 0 \/ cooldown <= now)]_vars

PastRecordStep(c) ==
  \/ pc[c] = "store"
  \/ pc[c] = "complete" /\ resp[c].status # 304
  \/ pc[c] = "done" /\ result[c].src = "fetch-200"

\* C7: a get that reached the recording step has recorded the request
\* exactly once: with atomic acquire the successful acquire is the only
\* recording and record was never called, otherwise record was called
\* exactly once.
C7_RecordedExactlyOnce ==
  \A c \in Callers :
    (PastRecordStep(c) /\ cfg.rateLimit # "none")
      => IF cfg.rateLimit = "acquire"
         THEN h[c].acqs = 1 /\ h[c].recs = 0
         ELSE h[c].acqs = 0 /\ h[c].recs = 1

\* a call returned its fetched value after an acquire that was first
\* refused, and (in another run) after a canProceed check and one record
C7_Witness ==
  \E c \in Callers :
    /\ pc[c] = "done" /\ result[c].src = "fetch-200"
    /\ cfg.rateLimit = "acquire" /\ h[c].polls >= 1 /\ h[c].acqs = 1

\* the cache holds an entry that matches c's request and classifies fresh
FreshMatch(c) ==
  cfg.cache /\ Classify(c, CacheGet(cache, now), now) = "fresh"

MustRevalidate(c) ==
  \/ h[c].cls = "must-revalidate"
  \/ h[c].cls = "no-cache" /\ ~cfg.ignoreNoCache

\* C9: a get whose cached entry classified must-revalidate (or no-cache
\* without ignoreNoCache) returns only a value that comes from a fetch made
\* after the classification: its own 304 or 200, or the result of the
\* owner it joined; never the stored result of a dedupe job that was
\* already completed when the entry was classified.
C9_NeverServedUnrevalidated ==
  \A c \in Callers :
    (MustRevalidate(c) /\ pc[c] = "done")
      => \/ result[c].src \in {"fetch-200", "fetch-304", "joined"}
         \/ result[c].src = "dedupe-stored" /\ h[c].jobAtCls # "completed"

\* C10: the cache never holds an entry written from a response whose
\* Cache-Control contains no-store, unless ignoreNoStore is in effect.
C10_NoStoreNeverWritten ==
  (cache # NoEntry /\ ~cfg.ignoreNoStore)
    => ~cache.entry.metadata.cacheControl.noStore

\* C11: a call whose cache phase classifies the entry stale-while-revalidate
\* returns the entry's value in that step, without any transport call, and
\* leaves a background revalidation of that entry pending; when the
\* revalidation settles with 304 the store holds the same value with the
\* 304's validators and storedAt = now, and when it settles with an
\* accepted 200 the store holds the response's value and metadata.
C11_StaleWhileRevalidate ==
  [][\A c \in Callers :
       /\ (pc[c] = "cache" /\ pc'[c] # "cache"
             /\ h'[c].cls = "stale-while-revalidate")
          => /\ pc'[c] = "done"
             /\ result'[c].kind = "value"
             /\ result'[c].val = CacheGet(cache, now).value
             /\ h'[c].fetches = 0
             /\ reval'[c] = CacheGet(cache, now)
       /\ (reval[c] # NoEntry /\ reval'[c] = NoEntry
             /\ h'[c].revalStatus = "notModified")
          => /\ cache' # NoEntry
             /\ cache'.entry.value = reval[c].value
             /\ cache'.entry.metadata.etag = h'[c].revalResp.etag
             /\ cache'.entry.metadata.storedAt = now
       /\ (reval[c] # NoEntry /\ reval'[c] = NoEntry
             /\ h'[c].revalStatus = "ok")
          => /\ cache' # NoEntry
             /\ cache'.entry.value = h'[c].revalResp.body
             /\ cache'.entry.metadata.etag = h'[c].revalResp.etag
             /\ cache'.entry.metadata.cacheControl =
                  parseCacheControl(h'[c].revalResp.cc)
             /\ cache'.entry.metadata.storedAt = now
  ]_vars

\* a call served a stale-while-revalidate entry and its revalidation then
\* replaced the stored value
C11_Witness ==
  \E c \in Callers :
    /\ h[c].cls = "stale-while-revalidate"
    /\ result[c].kind = "value" /\ result[c].val = "v0"
    /\ h[c].revalStatus = "ok"
    /\ cache # NoEntry /\ cache.entry.value = "v1"

\* the errors executeFetch throws for a failed fetch
FetchFailures == {"http", "server", "network"}

\* C12: when a call holds a stale-if-error candidate and its fetch fails,
\* the call returns the stale value if and only if the failure is a 5xx
\* response or a network failure; it then calls dedupe.complete with the
\* stale value and never dedupe.fail, and any other failed fetch (a 4xx
\* response) ends the call with an error after dedupe.fail.
C12_StaleIfErrorFallback ==
  [][\A c \in Callers :
       (pc[c] \notin Final /\ pc'[c] \in Final /\ cand[c]
          /\ h[c].caught = "none" /\ h'[c].caught \in FetchFailures)
       => IF h'[c].caught \in {"server", "network"}
          THEN /\ result'[c].kind = "value"
               /\ result'[c].val = stale[c].value
               /\ h'[c].completeArg = stale[c].value
               /\ h'[c].failCalls = 0
          ELSE /\ result'[c].kind = "error"
               /\ result'[c].src = h'[c].caught
               /\ h'[c].completeArg = "none"
               /\ h'[c].failCalls = 1
  ]_vars

\* a stale-if-error call got the stale value after a network failure, and
\* one after a 5xx answer that was retried
C12_Witness ==
  \E c \in Callers :
    /\ h[c].cls = "stale-if-error"
    /\ h[c].caught = "server"
    /\ h[c].fetches = 2
    /\ result[c] = Value("v0", "stale-if-error")
    /\ h[c].completeArg = "v0"


\* ------------------------------------------- refreshCacheEntry on its own
\* The client as constructed, no call made: the state the pure functions
\* are applied in.
ClientInit ==
  /\ cfg = Config({"a"}, TRUE, "memory", "none", FALSE, 1000, FALSE, FALSE)
  /\ now = 0
  /\ cooldown = 0
  /\ cache = NoEntry
  /\ job = NoJob
  /\ pc = [c \in Callers |-> "idle"]
  /\ stale = [c \in Callers |-> NoEntry]
  /\ cand = [c \in Callers |-> FALSE]
  /\ timer = [c \in Callers |-> NoTimer]
  /\ already = [c \in Callers |-> FALSE]
  /\ resp = [c \in Callers |-> NoResp]
  /\ result = [c \in Callers |-> NoResult]
  /\ reval = [c \in Callers |-> NoEntry]
  /\ h = [c \in Callers |-> NoHist]
  /\ attempt = [c \in Callers |-> 1]

PureInit == ClientInit /\ store = NoValue

PureUnchanged ==
  UNCHANGED <<cfg, now, cooldown, cache, job, pc, stale, cand, timer,
              already, resp, result, reval, h, attempt, fin, store>>

\* stored entries: one as createCacheEntry leaves it for a bare response,
\* one with every optional field set and an Age the origin reported
RefreshEntries ==
  { Directives(<<Tok("max-age", 1)>>),
    [Directives(<<Tok("max-age", 0), Tok("must-revalidate", Undef)>>)
       EXCEPT !.metadata.lastModified = 100, !.metadata.expires = 5000,
              !.metadata.varyHeaders = "accept", !.metadata.varyValues = "x",
              !.metadata.ageHeader = 7, !.metadata.responseDate = 100,
              !.metadata.storedAt = 200, !.metadata.statusCode = 203] }

\* header sets of a 304: each header absent or present, dates and Age
\* also with text that does not parse
RefreshHeaders ==
  { [Response(304, cc, Undef, NoValue) EXCEPT
       !.etag = etag, !.date = date, !.age = age, !.lastModified = lm,
       !.expires = expires, !.vary = vary] :
      cc \in {<<>>, <<Tok("max-age", 2)>>}, etag \in {NoValue, "e1"},
      date \in {Undef, Unparseable, 900}, age \in {Undef, Unparseable, 3},
      lm \in {Undef, 800}, expires \in {Undef, Unparseable, 0},
      vary \in {NoValue, "accept-encoding"} }

\* Date.now() when the 304 arrives
RefreshNows == {1000}

InitRefresh ==
  /\ PureInit
  /\ fin \in [existing : RefreshEntries, newHeaders : RefreshHeaders,
              now : RefreshNows]
  /\ fout = NoEntry

ApplyRefresh ==
  /\ fout = NoEntry
  /\ fout' = refreshCacheEntry(fin.existing, fin.newHeaders, fin.now)
  /\ PureUnchanged

NextRefresh == ApplyRefresh

SpecRefresh == InitRefresh /\ [][NextRefresh]_vars

VaryMismatch(entry, c) ==
  /\ entry # NoEntry
  /\ ~varyMatches(entry.metadata.varyValues, entry.metadata.varyHeaders,
                  RequestHeader(c))

C16_AbortBeforeDedupeSettle ==
  \A c \in Callers :
    (pc[c] = "failed" /\ result[c].src = "abort")
      => (h[c].failCalls = 0 /\ h[c].completeArg = "none")


\* C17: a call whose signal fired while it was in a cooldown wait, an
\* admission wait, a retry sleep, the cooldown wait before a retry or the
\* fetch ends with that same AbortError: it is not replaced by another
\* error, not swallowed, and errorHandler is not called for it.
C17_AbortUnwrapped ==
  \A c \in Callers :
    h[c].abortedIn # "none"
      => /\ pc[c] = "failed"
         /\ result[c].kind = "error"
         /\ result[c].src = "abort"
         /\ result[c].thrown = "same"
         /\ result[c].handlerCalls = 0

\* with errorHandler configured, a stale-if-error call was aborted in the
\* sleep before its retry and threw the AbortError itself
C17_Witness ==
  \E c \in Callers :
    /\ cfg.errorHandler
    /\ h[c].cls = "stale-if-error"
    /\ h[c].abortedIn = "retrywait"
    /\ result[c].thrown = "same"


\* failures that are neither an HTTP error context, nor an AbortError, nor
\* an HttpClientError already
OtherFailures ==
  {"network", "rateLimited", "budgetExhausted", "handlerError",
   "handlerTypeError"}

\* C18: a failed call runs errorHandler at most once, and only when what
\* it caught is the HTTP error context of a non-2xx response it received
\* (also after retries); a network failure or any other thrown value is
\* replaced by a new HttpClientError without errorHandler being called,
\* and errorHandler is not called for an AbortError or an HttpClientError
\* either.
C18_ErrorHandlerOnlyForHttp ==
  \A c \in Callers :
    pc[c] = "failed"
      => /\ result[c].handlerCalls <= 1
         /\ result[c].handlerCalls = 1
              => /\ cfg.errorHandler
                 /\ h[c].caught \in {"http", "server"}
                 /\ h[c].fetches >= 1
         /\ h[c].caught \in OtherFailures
              => /\ result[c].thrown = "HttpClientError"
                 /\ result[c].handlerCalls = 0
         /\ h[c].caught \notin {"http", "server"}
              => result[c].handlerCalls = 0

\* with errorHandler configured: a call failed with a 4xx after a retried
\* 5xx and ran errorHandler once
C18_Witness ==
  \E c \in Callers :
    /\ cfg.errorHandler
    /\ pc[c] = "failed"
    /\ h[c].fetches = 2
    /\ h[c].caught = "http"
    /\ result[c].handlerCalls = 1


\* C19 as stated: whatever responseHandler or errorHandler throws is what
\* get throws - the call fails and the error is that same error.
C19_HandlerErrorsUnchanged ==
  \A c \in Callers :
    /\ h[c].caught \in {"handlerError", "handlerTypeError", "handlerDomain"}
         => (pc[c] = "failed" /\ result[c].thrown = "same")
    /\ h[c].handlerThrew
         => (pc[c] = "failed" /\ result[c].thrown = "handlerThrown")

\* C19, amended: what errorHandler throws is what get throws; what
\* responseHandler throws is thrown unchanged only when it is an
\* HttpClientError; any other error of responseHandler is replaced by a
\* new HttpClientError, except that a TypeError is swallowed and the stale
\* value returned when the call holds a stale-if-error candidate.
C19_HandlerErrorsClassified ==
  \A c \in Callers :
    /\ h[c].handlerThrew
         => (pc[c] = "failed" /\ result[c].thrown = "handlerThrown")
    /\ h[c].caught = "handlerDomain"
         => (pc[c] = "failed" /\ result[c].thrown = "same")
    /\ h[c].caught = "handlerError"
         => (pc[c] = "failed" /\ result[c].thrown = "HttpClientError")
    /\ h[c].caught = "handlerTypeError"
         => IF h[c].cls = "stale-if-error"
            THEN pc[c] = "done" /\ result[c].src = "stale-if-error"
            ELSE pc[c] = "failed" /\ result[c].thrown = "HttpClientError"

\* responseHandler threw a plain Error on a 200 response and the call
\* failed with a new HttpClientError
C19_Witness ==
  \E c \in Callers :
    /\ cfg.responseHandler
    /\ h[c].caught = "handlerError"
    /\ h[c].fetches = 1
    /\ pc[c] = "failed"
    /\ result[c].thrown = "HttpClientError"


\* ----------------------------------------- calculateRetryDelay on its own
\* attempts 1..maxRetries of the default maxRetries = 3; delays in ms
RetryDelayInputs ==
  [attempt : 1..3, baseDelay : {1, 1000}, maxDelay : {1500, 30000},
   jitter : {"full", "none"},
   retryAfterMs : {Undef, 0, 1000, 2000, 60000},
   rnd : 0..(RandomDen - 1)]

InitRetryDelay ==
  /\ PureInit
  /\ fin \in RetryDelayInputs
  /\ fout = Undef

ApplyRetryDelay ==
  /\ fout = Undef
  /\ fout' = calculateRetryDelay(fin.attempt, fin.baseDelay, fin.maxDelay,
                                 fin.jitter, fin.retryAfterMs, fin.rnd)
  /\ PureUnchanged

NextRetryDelay == ApplyRetryDelay

SpecRetryDelay == InitRetryDelay /\ [][NextRetryDelay]_vars

\* min(baseDelay * 2^(attempt-1), maxDelay) of the arguments in fin
CappedDelay == Min(fin.baseDelay * Pow2(fin.attempt - 1), fin.maxDelay)

\* C20: the retry delay is never smaller than the Retry-After of the
\* failed response, and it is max(Retry-After, local delay) where the local
\* delay is min(baseDelay * 2^(attempt-1), maxDelay) with jitter = none and
\* a value in [0, capped) with jitter = full (without Retry-After the
\* delay is the local delay).
C20_RetryDelayAtLeastRetryAfter ==
  fout # Undef =>
    /\ fin.retryAfterMs # Undef => fout >= fin.retryAfterMs
    /\ fin.jitter = "none" => fout = Max(fin.retryAfterMs, CappedDelay)
    /\ fin.jitter = "full" =>
         \E local \in 0..(CappedDelay - 1) :
            fout = Max(fin.retryAfterMs, local)

\* second attempt, full jitter: the local delay fell below the server's
\* Retry-After of 2 s and the delay is the Retry-After
C20_Witness ==
  /\ fout = 2000
  /\ fin.jitter = "full"
  /\ fin.attempt = 2
  /\ fin.retryAfterMs = 2000
  /\ (fin.rnd * CappedDelay) \div RandomDen < 2000


\* ------------------------------------- DynamoDBRateLimitStore.acquire
\* The stores are studied on their own: the client is as constructed and
\* only the variable store changes.
StoreUnchanged ==
  UNCHANGED <<cfg, now, cooldown, cache, job, pc, stale, cand, timer,
              already, resp, result, reval, h, attempt, fin, fout>>

\* processes that call acquire on the one resource, each with its own
\* call frame: now, startSlot, offset
Procs == {"p", "q", "r"}

\* RateLimitConfig of the resource
RateConfigs ==
  { [limit |-> 0, windowMs |-> 1000],
    [limit |-> 1, windowMs |-> 1000],
    [limit |-> 2, windowMs |-> 1000] }

\* Date.now() advances in steps of AcqTickMs up to MaxAcqNow
AcqTickMs == 500
MaxAcqNow == 2500

IdleFrame == [pc |-> "idle", now |-> 0, startSlot |-> 0, offset |-> 0]

\* store.slots: timestamp of the RATELIMIT_SLOT item of each slot (Undef:
\* no item); store.events: the TS# items, one per successful acquire
InitAcquire ==
  /\ ClientInit
  /\ fin = NoValue
  /\ fout = NoValue
  /\ store \in { [config |-> rc, now |-> 0,
                   slots |-> [i \in 0..1 |-> Undef],
                   events |-> {},
                   frame |-> [p \in Procs |-> IdleFrame]] : rc \in RateConfigs }

\* ConditionExpression of the slot Put:
\* attribute_not_exists(pk) OR #timestamp < :windowStart
SlotFreeInclusive(slotTimestamp, windowStart) ==
  slotTimestamp = Undef \/ slotTimestamp <= windowStart

SlotFree(slotTimestamp, windowStart) ==
  slotTimestamp = Undef \/ slotTimestamp < windowStart

\* acquire up to the loop: limit <= 0 returns false, else now and the
\* random start slot are fixed for the call
AcquireStart(p) ==
  /\ store.frame[p].pc = "idle"
  /\ IF store.config.limit <= 0
     THEN store' = [store EXCEPT !.frame[p].pc = "false"]
     ELSE \E startSlot \in 0..(store.config.limit - 1) :
            store' = [store EXCEPT !.frame[p] =
                        [pc |-> "loop", now |-> store.now,
                         startSlot |-> startSlot, offset |-> 0]]
  /\ StoreUnchanged

\* one pass of the loop: the TransactWrite on the next slot commits (return
\* true), is cancelled by the condition (continue; return false after the
\* last slot), or fails otherwise (throw)
AcquireTry(p) ==
  /\ store.frame[p].pc = "loop"
  /\ LET f == store.frame[p]
         slot == (f.startSlot + f.offset) % store.config.limit
         windowStart == f.now - store.config.windowMs
     IN  \/ /\ SlotFree(store.slots[slot], windowStart)
            /\ store' = [store EXCEPT
                           !.slots[slot] = f.now,
                           !.events = @ \cup {[by |-> p, timestamp |-> f.now]},
                           !.frame[p].pc = "true"]
         \/ /\ ~SlotFree(store.slots[slot], windowStart)
            /\ store' = [store EXCEPT
                           !.frame[p].offset = f.offset + 1,
                           !.frame[p].pc =
                              IF f.offset + 1 < store.config.limit
                              THEN "loop" ELSE "false"]
         \/ store' = [store EXCEPT !.frame[p].pc = "threw"]
  /\ StoreUnchanged

AcqTick ==
  /\ store.now + AcqTickMs <= MaxAcqNow
  /\ store' = [store EXCEPT !.now = @ + AcqTickMs]
  /\ StoreUnchanged

NextAcquire ==
  \/ \E p \in Procs : AcquireStart(p)
  \/ \E p \in Procs : AcquireTry(p)
  \/ AcqTick

SpecAcquire == InitAcquire /\ [][NextAcquire]_vars

\* successful acquires whose timestamp lies in the window [t, t + windowMs]
GrantedInWindow(t) ==
  {e \in store.events :
     e.timestamp >= t /\ e.timestamp <= t + store.config.windowMs}

\* C21: however acquire calls on the resource interleave, the acquires that
\* returned true with a timestamp inside one window of windowMs are never
\* more than the limit.
C21_AcquireWithinLimit ==
  \A e \in store.events :
    Cardinality(GrantedInWindow(e.timestamp)) <= store.config.limit

\* limit 1: one acquire succeeded, one overlapping acquire was refused, and
\* a third succeeded on the same slot after the window had passed
C21_Witness ==
  /\ store.config.limit = 1
  /\ \E p, q, r \in Procs :
       /\ store.frame[p].pc = "true" /\ store.frame[p].now = 0
       /\ store.frame[q].pc = "false"
       /\ store.frame[r].pc = "true" /\ store.frame[r].now > 1000

\* ---------------------------------------------------------------------
\* Adaptive capacity allocation: AdaptiveCapacityCalculator
\* .calculateDynamicCapacity and DynamoDBAdaptiveRateLimitStore
\* .getDefaultCapacity, applied to one input each.
\* ---------------------------------------------------------------------

MaxLimit == 6

MaxActivity == 3

Allocation(userReserved, backgroundMax, backgroundPaused, reason) ==
  [userReserved |-> userReserved, backgroundMax |-> backgroundMax,
   backgroundPaused |-> backgroundPaused, reason |-> reason]

NoAllocation == Allocation(0, 0, FALSE, "none")

\* maxUserScaling is kept in tenths (10 = 1.0, 15 = 1.5, 20 = 2.0)
CapacityConfigs ==
  [highActivityThreshold : {2, 3}, moderateActivityThreshold : {0, 1},
   backgroundPauseOnIncreasingTrend : BOOLEAN,
   maxUserScaling10 : {10, 15, 20}, minUserReserved : {0, 2, 5}]

\* the metrics as the calculator reads them: the user requests inside the
\* monitoring window, whether any user request is recorded at all, whether
\* the time since the last one reached sustainedInactivityThresholdMs,
\* whether background requests are recorded, and the trend
CapacityInputs ==
  {i \in [totalLimit : 0..MaxLimit, recentUserActivity : 0..MaxActivity,
          anyUserRequests : BOOLEAN, sustained : BOOLEAN,
          anyBackgroundRequests : BOOLEAN,
          trend : {"none", "increasing", "stable", "decreasing"},
          config : CapacityConfigs] :
     /\ i.recentUserActivity > 0 => i.anyUserRequests /\ ~i.sustained
     /\ ~i.anyUserRequests => ~i.sustained /\ i.trend = "none"
     /\ i.recentUserActivity = 0 => i.trend = "none"}

\* the allocations calculateDynamicCapacity may return; the moderate
\* branch is only bounded by its range
calculateDynamicCapacity(totalLimit, i) ==
  LET c == i.config
      minimal(reason) ==
        {Allocation(c.minUserReserved, totalLimit - c.minUserReserved,
                    FALSE, reason)}
      high == Min(totalLimit, (totalLimit * c.maxUserScaling10 * 7) \div 100)
  IN  IF i.recentUserActivity = 0 /\ i.anyUserRequests /\ i.sustained
        THEN {Allocation(0, totalLimit, FALSE, "Sustained zero activity")}
      ELSE IF i.recentUserActivity = 0 /\ i.anyUserRequests
        THEN minimal("Recent zero activity")
      ELSE IF i.recentUserActivity = 0 /\ i.anyBackgroundRequests
        THEN minimal("No user activity yet")
      ELSE IF i.recentUserActivity = 0
        THEN {Allocation((totalLimit * 3) \div 10,
                         totalLimit - (totalLimit * 3) \div 10,
                         FALSE, "Initial state")}
      ELSE IF i.recentUserActivity >= c.highActivityThreshold
        THEN {Allocation(high, totalLimit - high,
                         c.backgroundPauseOnIncreasingTrend
                           /\ i.trend = "increasing",
                         "High user activity")}
      ELSE IF i.recentUserActivity >= c.moderateActivityThreshold
        THEN {Allocation(u, totalLimit - u, FALSE, "Moderate user activity") :
                u \in ((totalLimit * 4) \div 10)..((totalLimit * 7) \div 10)}
      ELSE minimal("Low user activity")

getDefaultCapacity(limit) ==
  LET userReserved == (limit * 3) \div 10
  IN  Allocation(userReserved, Max(0, limit - userReserved), FALSE,
                 "Default capacity allocation")

InitCapacity ==
  /\ PureInit
  /\ fin \in CapacityInputs
  /\ fout = NoAllocation

ApplyCalculate ==
  /\ fout = NoAllocation
  /\ fout' \in calculateDynamicCapacity(fin.totalLimit, fin)
  /\ PureUnchanged

ApplyDefault ==
  /\ fout = NoAllocation
  /\ fout' = getDefaultCapacity(fin.totalLimit)
  /\ PureUnchanged

NextCapacity == ApplyCalculate \/ ApplyDefault

SpecCapacity == InitCapacity /\ [][NextCapacity]_vars

\* C22: every allocation computed from a total limit has userReserved >= 0,
\* backgroundMax >= 0 and userReserved + backgroundMax <= totalLimit, and
\* the sustained-inactivity allocation reserves nothing for users.
C22_AllocationWithinLimit ==
  fout.reason # "none" =>
    /\ fout.userReserved >= 0
    /\ fout.backgroundMax >= 0
    /\ fout.userReserved + fout.backgroundMax <= fin.totalLimit
    /\ fout.reason = "Sustained zero activity" => fout.userReserved = 0

\* ---------------------------------------------------------------------
\* DynamoDBAdaptiveRateLimitStore: the per-resource capacity cache
\* (cachedCapacity, lastCapacityUpdate) read by calculateCurrentCapacity
\* and dropped by reset and clear.
\* ---------------------------------------------------------------------

Resources == {"x", "y"}

CapEpoch == 5000

CapTickMs == 1000

MaxCapNow == 7000

CalculatorConfig ==
  [highActivityThreshold |-> 2, moderateActivityThreshold |-> 1,
   backgroundPauseOnIncreasingTrend |-> TRUE, maxUserScaling10 |-> 20,
   minUserReserved |-> 2]

Metrics(recentUserActivity, anyBackgroundRequests) ==
  [totalLimit |-> 0, recentUserActivity |-> recentUserActivity,
   anyUserRequests |-> recentUserActivity > 0, sustained |-> FALSE,
   anyBackgroundRequests |-> anyBackgroundRequests,
   trend |-> IF recentUserActivity > 0 THEN "increasing" ELSE "none",
   config |-> CalculatorConfig]

\* the activity metrics a resource can have when its capacity is read
CapMetrics == {Metrics(0, FALSE), Metrics(3, FALSE)}

\* a capacity read as its caller sees it, with what had been computed for
\* the resource before it
CapacityRead(r, at, recomputed, returned, s) ==
  [resource |-> r, at |-> at, recomputed |-> recomputed,
   returned |-> returned, prevComputedAt |-> s.computedAt[r],
   prevComputed |-> s.computed[r], afterDrop |-> s.dropped[r]]

NoRead ==
  [resource |-> "none", at |-> Undef, recomputed |-> FALSE,
   returned |-> NoAllocation, prevComputedAt |-> Undef,
   prevComputed |-> NoAllocation, afterDrop |-> FALSE]

InitCapacityCache ==
  /\ ClientInit /\ fin = NoValue /\ fout = NoValue
  /\ store \in
       {[recalculationIntervalMs |-> iv, now |-> CapEpoch,
         limit |-> [r \in Resources |-> 10],
         metrics |-> [r \in Resources |-> m],
         lastCapacityUpdate |-> [r \in Resources |-> Undef],
         cachedCapacity |-> [r \in Resources |-> NoAllocation],
         read |-> NoRead,
         computedAt |-> [r \in Resources |-> Undef],
         computed |-> [r \in Resources |-> NoAllocation],
         dropped |-> [r \in Resources |-> FALSE]] :
          iv \in {0, 2000}, m \in CapMetrics}

\* calculateCurrentCapacity(resource, metrics), as called by canProceed,
\* acquire, getStatus and getWaitTime
calculateCurrentCapacity(r) ==
  LET lastUpdate == IF store.lastCapacityUpdate[r] = Undef
                      THEN 0 ELSE store.lastCapacityUpdate[r]
      bookkeeping(s) ==
        [s EXCEPT !.dropped[r] = FALSE]
  IN  IF store.now - lastUpdate < store.recalculationIntervalMs
        THEN store' = bookkeeping(
               [store EXCEPT
                  !.read = CapacityRead(r, store.now, FALSE,
                             IF store.cachedCapacity[r] # NoAllocation
                               THEN store.cachedCapacity[r]
                               ELSE getDefaultCapacity(store.limit[r]),
                             store)])
        ELSE \E capacity \in
                 calculateDynamicCapacity(store.limit[r], store.metrics[r]) :
               store' = bookkeeping(
                 [store EXCEPT !.cachedCapacity[r] = capacity,
                               !.lastCapacityUpdate[r] = store.now,
                               !.computedAt[r] = store.now,
                               !.computed[r] = capacity,
                               !.read = CapacityRead(r, store.now, TRUE,
                                                     capacity, store)])

ReadCapacity(r) == calculateCurrentCapacity(r) /\ StoreUnchanged

dropCapacityKeepsLastUpdate(s, rs) ==
  [s EXCEPT !.cachedCapacity =
              [r \in Resources |->
                 IF r \in rs THEN NoAllocation ELSE s.cachedCapacity[r]]]

\* the cache maps after reset (rs = {resource}) or clear (rs = all)
dropCapacity(s, rs) ==
  [s EXCEPT !.cachedCapacity =
              [r \in Resources |->
                 IF r \in rs THEN NoAllocation ELSE s.cachedCapacity[r]],
            !.lastCapacityUpdate =
              [r \in Resources |->
                 IF r \in rs THEN Undef ELSE s.lastCapacityUpdate[r]]]

Dropped(s, rs) ==
  [s EXCEPT !.dropped = [r \in Resources |-> r \in rs \/ s.dropped[r]],
            !.metrics = [r \in Resources |->
                           IF r \in rs
                             THEN Metrics(0, FALSE)
                             ELSE s.metrics[r]]]

CapReset(r) ==
  /\ store' = Dropped(dropCapacity(store, {r}), {r})
  /\ StoreUnchanged

CapClear ==
  /\ store' = Dropped(dropCapacity(store, Resources), Resources)
  /\ StoreUnchanged

\* record() and the passing of time change what the metrics show
CapRecord(r) ==
  /\ \E m \in CapMetrics \ {store.metrics[r]} :
       store' = [store EXCEPT !.metrics[r] = m]
  /\ StoreUnchanged

CapTick ==
  /\ store.now + CapTickMs <= MaxCapNow
  /\ store' = [store EXCEPT !.now = store.now + CapTickMs]
  /\ StoreUnchanged

NextCapacityCache ==
  \/ \E r \in Resources : ReadCapacity(r)
  \/ \E r \in Resources : CapReset(r)
  \/ CapClear
  \/ \E r \in Resources : CapRecord(r)
  \/ CapTick

SpecCapacityCache == InitCapacityCache /\ [][NextCapacityCache]_vars

\* C23: a read recomputes the allocation of its resource only when no
\* allocation has been computed for it since its last reset or clear, or
\* when the last computation is at least recalculationIntervalMs old; any
\* other read returns the allocation computed last; and the first read
\* after a reset or clear of the resource recomputes.
C23_RecomputeOncePerInterval ==
  LET rd == store.read
  IN  rd.resource # "none" =>
        /\ rd.recomputed /\ ~rd.afterDrop /\ rd.prevComputedAt # Undef
             => rd.at - rd.prevComputedAt >= store.recalculationIntervalMs
        /\ ~rd.recomputed
             => /\ rd.prevComputedAt # Undef
                /\ rd.at - rd.prevComputedAt < store.recalculationIntervalMs
                /\ rd.returned = rd.prevComputed
        /\ rd.afterDrop => rd.recomputed

\* a resource with a computed allocation was reset or cleared, and the next
\* read recomputed although the last computation was inside the interval
C23_Witness ==
  LET rd == store.read
  IN  /\ rd.afterDrop /\ rd.recomputed
      /\ rd.prevComputedAt # Undef
      /\ rd.at - rd.prevComputedAt < store.recalculationIntervalMs
      /\ rd.returned # rd.prevComputed

\* ---------------------------------------------------------------------
\* DynamoDBDedupeStore: one hash, its item in the table, and the calls
\* registerOrJoin, complete, fail, waitFor, clear and close interleaved at
\* their DynamoDB requests.  "p" and the waiter "w" share one store
\* instance; "q" uses another instance on the same table.
\* ---------------------------------------------------------------------

DWorkers == {"p", "q"}

DWaiters == {"w"}

DProcs == DWorkers \cup DWaiters

Local(p) == p \in {"p", "w"}

DValues == {"v1", "v2"}

MaxJobs == 2

JobTimeoutMs == 300000

\* the item DEDUPE#hash; jobId 0 stands for an item without that attribute
Item(status, jobId, res, expired) ==
  [status |-> status, jobId |-> jobId, result |-> res,
   expired |-> expired]

NoItem == Item("absent", 0, NoValue, FALSE)

\* a call in progress or returned; pendingAtPut is the job a registerOrJoin
\* found pending at its Put, or the job a waitFor found pending at its Get
DFrame(op, at, value, pendingAtPut) ==
  [op |-> op, pc |-> at, value |-> value, pendingAtPut |-> pendingAtPut]

\* what a registerOrJoin call returned, with the job that was pending at
\* its Put (0: none) and whether that job was still pending at its Get
Registration(jobId, isOwner, pendingAtPut, replaced) ==
  [jobId |-> jobId, isOwner |-> isOwner, pendingAtPut |-> pendingAtPut,
   replaced |-> replaced, returned |-> TRUE]

NoReg == [Registration(0, FALSE, 0, FALSE) EXCEPT !.returned = FALSE]

Idle == DFrame("none", "idle", NoValue, 0)

InitDedupe ==
  /\ ClientInit /\ fin = NoValue /\ fout = NoValue
  /\ store \in
       {[jobTimeoutMs |-> t, item |-> NoItem, nextJobId |-> 0,
         isDestroyed |-> FALSE, jobSettlers |-> {},
         frame |-> [p \in DProcs |-> Idle],
         reg |-> [p \in DWorkers |-> NoReg], settled |-> {},
         stored |-> {}] : t \in {0, JobTimeoutMs}}

Callable(p) == store.frame[p].pc \in {"idle", "returned", "threw"}

\* isDestroyed of the instance the caller uses
Destroyed(p) == Local(p) /\ store.isDestroyed

\* the job of the item is no longer pending, or the item is gone
Settling(s) ==
  IF s.item.status = "pending" THEN s.settled \cup {s.item.jobId}
  ELSE s.settled

\* settle(value) of every waiter registered in jobSettlers of the
\* caller's instance
settle(s, p, value) ==
  IF ~Local(p) THEN s
  ELSE [s EXCEPT !.jobSettlers = {},
                 !.frame = [w \in DProcs |->
                              IF w \in s.jobSettlers
                                THEN DFrame("waitFor", "returned", value,
                                            s.frame[w].pendingAtPut)
                                ELSE s.frame[w]]]

\* the call rejects; only a waiter's rejection is looked at afterwards
Threw(s, p, op) ==
  [s EXCEPT !.frame[p] = IF p \in DWaiters
                           THEN DFrame(op, "threw", NoValue, 0) ELSE Idle]

ConditionPutUnconditional(item) == TRUE

\* ConditionExpression of the Put in registerOrJoin
ConditionPut(item) == item.status = "absent" \/ item.status # "pending"

\* registerOrJoin up to the answer of the conditional Put
RegisterPut(p) ==
  /\ \/ Callable(p)
     \/ store.frame[p].op = "registerOrJoin" /\ store.frame[p].pc = "put"
  /\ \/ /\ Destroyed(p)
        /\ store' = Threw(store, p, "registerOrJoin")
     \/ /\ ~Destroyed(p)
        /\ store.nextJobId < MaxJobs
        /\ LET candidateJobId == store.nextJobId + 1
               pendingAtPut == IF store.item.status = "pending"
                                 THEN store.item.jobId ELSE 0
           IN  IF ConditionPut(store.item)
                 THEN store' =
                        [store EXCEPT
                           !.item = Item("pending", candidateJobId, NoValue,
                                         FALSE),
                           !.nextJobId = candidateJobId,
                           !.frame[p] = Idle,
                           !.reg[p] = Registration(candidateJobId, TRUE,
                                                   pendingAtPut, FALSE)]
                 ELSE store' =
                        [store EXCEPT
                           !.frame[p] = DFrame("registerOrJoin", "get",
                                               NoValue, pendingAtPut)]
     \/ /\ ~Destroyed(p)
        /\ store' = Threw(store, p, "registerOrJoin")
  /\ StoreUnchanged

\* registerOrJoin after ConditionalCheckFailedException: read the item
RegisterGet(p) ==
  /\ store.frame[p].op = "registerOrJoin" /\ store.frame[p].pc = "get"
  /\ \/ IF store.item.status # "absent"
          THEN store' =
                 [store EXCEPT
                    !.frame[p] = Idle,
                    !.reg[p] =
                       Registration(store.item.jobId, FALSE,
                                    store.frame[p].pendingAtPut,
                                    store.frame[p].pendingAtPut
                                      \in store.settled)]
          ELSE store' = [store EXCEPT
                           !.frame[p] = DFrame("registerOrJoin", "put",
                                               NoValue, 0)]
     \/ store' = Threw(store, p, "registerOrJoin")
  /\ StoreUnchanged

\* complete up to the answer of its Get
CompleteGet(p) ==
  /\ Callable(p)
  /\ \/ /\ Destroyed(p)
        /\ store' = Threw(store, p, "complete")
     \/ /\ ~Destroyed(p)
        /\ \E value \in DValues :
             store' =
               [store EXCEPT
                  !.frame[p] =
                    IF store.item.status = "completed" THEN Idle
                    ELSE DFrame("complete", "update", value, 0)]
     \/ /\ ~Destroyed(p)
        /\ store' = Threw(store, p, "complete")
  /\ StoreUnchanged

\* complete: the Update and the settling of the waiters of the instance
CompleteUpdate(p) ==
  /\ store.frame[p].op = "complete" /\ store.frame[p].pc = "update"
  /\ \/ LET value == store.frame[p].value
        IN  store' =
              settle([store EXCEPT
                        !.item = [@ EXCEPT !.status = "completed",
                                           !.result = value],
                        !.settled = Settling(store),
                        !.stored = @ \cup {value},
                        !.frame[p] = Idle],
                     p, value)
     \/ store' = Threw(store, p, "complete")
  /\ StoreUnchanged

Fail(p) ==
  /\ Callable(p)
  /\ \/ /\ Destroyed(p)
        /\ store' = Threw(store, p, "fail")
     \/ /\ ~Destroyed(p)
        /\ store' =
             settle([store EXCEPT
                       !.item = [@ EXCEPT !.status = "failed"],
                       !.settled = Settling(store),
                       !.frame[p] = Idle],
                    p, NoValue)
     \/ /\ ~Destroyed(p)
        /\ store' = Threw(store, p, "fail")
  /\ StoreUnchanged

PollOutcomeRejectsFailed(s, item, ok) == IF item.status = "failed" /\ ok THEN "reject" ELSE IF s.isDestroyed \/ ~ok \/ item.status = "absent" THEN "undefined" ELSE IF s.jobTimeoutMs > 0 /\ item.expired THEN "expired" ELSE IF item.status = "completed" THEN "value" ELSE "pending"

\* what one poll of a pending waiter finds
PollOutcome(s, item, ok) ==
  IF s.isDestroyed \/ ~ok \/ item.status = "absent" THEN "undefined"
  ELSE IF s.jobTimeoutMs > 0 /\ item.expired THEN "expired"
  ELSE IF item.status = "completed" THEN "value"
  ELSE IF item.status = "failed" THEN "undefined"
  ELSE "pending"

\* waitFor up to the answer of its Get; a pending job starts the polling
WaitFor(w) ==
  /\ Callable(w)
  /\ \/ /\ Destroyed(w)
        /\ store' = Threw(store, w, "waitFor")
     \/ /\ ~Destroyed(w)
        /\ \E ok \in BOOLEAN :
             store' =
               IF ~ok \/ store.item.status \in {"absent", "failed"}
                 THEN [store EXCEPT !.frame[w] =
                         DFrame("waitFor", "returned", NoValue, 0)]
               ELSE IF store.item.status = "completed"
                 THEN [store EXCEPT !.frame[w] =
                         DFrame("waitFor", "returned", store.item.result, 0)]
               ELSE [store EXCEPT
                       !.jobSettlers = @ \cup {w},
                       !.frame[w] = DFrame("waitFor", "waiting", NoValue,
                                           store.item.jobId)]
  /\ StoreUnchanged

\* one run of poll(), whose Get is answered (ok) or fails
PollWith(w, ok) ==
  /\ store.frame[w].pc = "waiting"
  /\ LET outcome == PollOutcome(store, store.item, ok)
           one(s, value) ==
             [s EXCEPT !.jobSettlers = @ \ {w},
                       !.frame[w] = DFrame("waitFor", "returned", value,
                                           s.frame[w].pendingAtPut)]
       IN  store' =
             CASE outcome = "undefined" -> one(store, NoValue)
               [] outcome = "expired" ->
                    one([store EXCEPT !.item = [@ EXCEPT !.status = "failed"],
                                      !.settled = Settling(store)], NoValue)
               [] outcome = "value" -> one(store, store.item.result)
               [] outcome = "reject" ->
                    [store EXCEPT !.jobSettlers = @ \ {w},
                                  !.frame[w] = DFrame("waitFor", "threw",
                                                      NoValue, 0)]
               [] OTHER -> store
  /\ StoreUnchanged

Poll(w) == \E ok \in BOOLEAN : PollWith(w, ok)

\* the setTimeout(jobTimeoutMs) callback of a pending waiter
TimeoutFire(w) ==
  /\ store.frame[w].pc = "waiting"
  /\ store.jobTimeoutMs > 0
  /\ store' =
       LET s == IF store.isDestroyed THEN store
                ELSE [store EXCEPT !.item = [@ EXCEPT !.status = "failed"],
                                   !.settled = Settling(store)]
       IN  [s EXCEPT !.jobSettlers = @ \ {w},
                     !.frame[w] = DFrame("waitFor", "returned", NoValue,
                                         s.frame[w].pendingAtPut)]
  /\ StoreUnchanged

\* jobTimeoutMs have passed since the item's createdAt
Expire ==
  /\ store.jobTimeoutMs > 0
  /\ store.item.status # "absent" /\ ~store.item.expired
  /\ store' = [store EXCEPT !.item.expired = TRUE]
  /\ StoreUnchanged

DedupeClear ==
  /\ ~store.isDestroyed
  /\ store.item.status # "absent" \/ store.jobSettlers # {}
  /\ store' = settle([store EXCEPT !.item = NoItem,
                                   !.settled = Settling(store)],
                     "p", NoValue)
  /\ StoreUnchanged

DedupeClose ==
  /\ ~store.isDestroyed
  /\ store' = settle([store EXCEPT !.isDestroyed = TRUE], "p", NoValue)
  /\ StoreUnchanged

NextDedupe ==
  \/ \E p \in DWorkers : RegisterPut(p)
  \/ \E p \in DWorkers : RegisterGet(p)
  \/ \E p \in DWorkers : CompleteGet(p)
  \/ \E p \in DWorkers : CompleteUpdate(p)
  \/ \E p \in DWorkers : Fail(p)
  \/ \E w \in DWaiters : WaitFor(w)
  \/ \E w \in DWaiters : Poll(w)
  \/ \E w \in DWaiters : TimeoutFire(w)
  \/ Expire
  \/ DedupeClear
  \/ DedupeClose

SpecDedupe == InitDedupe /\ [][NextDedupe]_vars

\* C24: a registerOrJoin call becomes owner exactly when no job is pending
\* at its conditional Put, so of the calls made until the first job is
\* settled or removed exactly one created a job and the others joined it;
\* a call whose Put finds a pending job returns
\* isOwner = false with that job's id as long as the job is still the one
\* in the table when the call reads it.
C24_RegisterOrJoinAtomic ==
  LET regs == {p \in DWorkers : store.reg[p].returned}
  IN  /\ \A p \in regs :
           /\ store.reg[p].isOwner <=> store.reg[p].pendingAtPut = 0
           /\ ~store.reg[p].isOwner /\ ~store.reg[p].replaced
                => store.reg[p].jobId = store.reg[p].pendingAtPut
      /\ \A p1, p2 \in regs :
           /\ store.reg[p1].isOwner /\ store.reg[p2].isOwner
           /\ store.reg[p1].jobId = store.reg[p2].jobId
           => p1 = p2
      /\ store.settled = {} /\ regs # {} =>
           /\ store.nextJobId = 1
           /\ Cardinality({p \in regs : store.reg[p].isOwner}) <= 1
           /\ \A p \in regs : store.reg[p].jobId = store.item.jobId

\* both workers called registerOrJoin while no job was pending: one became
\* owner and the other joined that owner's job
C24_Witness ==
  /\ store.settled = {}
  /\ \E p1, p2 \in DWorkers :
       /\ store.reg[p1].returned /\ store.reg[p2].returned
       /\ store.reg[p1].isOwner /\ ~store.reg[p2].isOwner
       /\ store.reg[p2].jobId = store.reg[p1].jobId

\* C25: once a registered job is completed, no step of a complete call, whether the
\* call started before or after the completion, changes the job's status
\* or its stored result.
C25_CompleteIdempotent ==
  [][(/\ store.item.status = "completed" /\ store.item.jobId # 0
      /\ \E p \in DWorkers : CompleteGet(p) \/ CompleteUpdate(p))
     => /\ store'.item.status = "completed"
        /\ store'.item.result = store.item.result]_vars

\* the timers of a pending waiter keep firing: setInterval runs poll again
\* and again, DynamoDB does not fail every Get, and setTimeout(jobTimeoutMs)
\* fires when it was armed
SpecDedupeFair ==
  /\ SpecDedupe
  /\ \A w \in DWaiters :
       WF_vars(PollWith(w, TRUE)) /\ WF_vars(TimeoutFire(w))

DWaiting(w) == store.frame[w].pc = "waiting"

C27_NonOwnerNeverSettles ==
  \A c \in Callers :
    ~h[c].owner => (h[c].failCalls = 0 /\ h[c].completeArg = "none")

\* ---------------------------------------------------------------------
\* The server cooldown of one origin: requests that pass
\* enforceServerCooldown, are in flight, and whose responses reach
\* applyServerRateLimitHints.
\* ---------------------------------------------------------------------

CdRequests == {"r1", "r2", "r3"}

CdTickMs == 500

MaxCdNow == 3000

\* responses that differ in what they advertise in Retry-After (seconds)
CdResponses ==
  { Response(200, <<>>, Undef, "v1"),
    Response(429, <<>>, 1, NoValue),
    Response(429, <<>>, 2, NoValue),
    Response(0, <<>>, Undef, NoValue) }

InitCooldown ==
  /\ ClientInit /\ fin = NoValue /\ fout = NoValue
  /\ store = [r \in CdRequests |-> "idle"]

CooldownUnchanged ==
  UNCHANGED <<cfg, cache, job, pc, stale, cand, timer, already, resp,
              result, reval, h, attempt, fin, fout>>

\* enforceServerCooldown: the request is sent when no cooldown is stored
\* or the stored one has passed (and is deleted); otherwise the call
\* sleeps or throws and nothing is sent
CdEnforce(r) ==
  /\ store[r] = "idle"
  /\ cooldown = 0 \/ cooldown - now <= 0
  /\ cooldown' = 0
  /\ store' = [store EXCEPT ![r] = "inflight"]
  /\ UNCHANGED now
  /\ CooldownUnchanged

\* the response of a request in flight arrives
CdResponse(r) ==
  /\ store[r] = "inflight"
  /\ \E response \in CdResponses :
       cooldown' = applyServerRateLimitHints(cooldown, response, now)
  /\ store' = [store EXCEPT ![r] = "idle"]
  /\ UNCHANGED now
  /\ CooldownUnchanged

CdTick ==
  /\ now + CdTickMs <= MaxCdNow
  /\ now' = now + CdTickMs
  /\ UNCHANGED <<cooldown, store>>
  /\ CooldownUnchanged

NextCooldown ==
  \/ \E r \in CdRequests : CdEnforce(r)
  \/ \E r \in CdRequests : CdResponse(r)
  \/ CdTick

SpecCooldown == InitCooldown /\ [][NextCooldown]_vars

\* C28: while the stored cooldown deadline of the origin has not passed,
\* no step moves it earlier.
C28_CooldownNeverEarlier ==
  [][cooldown > now => cooldown' >= cooldown]_vars

\* C29: a call that is between two attempts (in the retry delay or in the
\* cooldown sleep that follows it) goes on to send the next attempt only
\* when no cooldown is active for the origin, and if it ends there instead
\* it is not with the rate-limited error, whatever throwOnRateLimit says.
C29_RetryWaitsForCooldown ==
  [][\A c \in Callers :
       (pc[c] \in {"retrywait", "retrycd"}
          /\ pc'[c] \notin {"retrywait", "retrycd"})
       => \/ pc'[c] = "fetch" /\ (cooldown = 0 \/ cooldown - now <= 0)
          \/ pc'[c] # "fetch" /\ h'[c].caught # "rateLimited"]_vars

\* with throwOnRateLimit set, a call slept through a cooldown before its
\* retry and then sent the second attempt
C29_Witness ==
  /\ cfg.throwOnRateLimit
  /\ \E c \in Callers :
       /\ h[c].sleptRetryCd > 0
       /\ h[c].fetches = 2

\* the attempts executeFetch may make for one get
MaxAttempts == IF cfg.retry.enabled THEN cfg.retry.maxRetries + 1 ELSE 1

\* C30: a get invokes the transport at most maxRetries + 1 times, once at
\* most when retry is disabled; it goes on to a further attempt only after
\* a response with a status in {429, 500, 502, 503, 504} or a network
\* failure; and a call that was aborted makes no further attempt.
C30_AttemptsBounded ==
  \A c \in Callers :
    /\ h[c].fetches <= MaxAttempts
    /\ h[c].fetches <= Cardinality(h[c].retriedAfter) + 1
    /\ h[c].retriedAfter \subseteq RETRYABLE_STATUS_CODES \cup {0}
    /\ h[c].abortedIn # "none" => pc[c] = "failed"

\* with maxRetries = 1 a call made its second and last attempt after a 429
\* and was then answered 429 again, which ended it
C30_Witness ==
  \E c \in Callers :
    /\ cfg.retry.enabled
    /\ h[c].fetches = 2 /\ h[c].retriedAfter = {429}
    /\ pc[c] = "failed" /\ h[c].caught = "http"

\* ---------------------------------------------------------------------
\* The caller's AbortSignal as state.  store[c] is signal.aborted of call
\* c.  The signal is handed to wait() (cooldown, admission and retry
\* sleeps) and to fetch; cache.get / cache.set, dedupe.waitFor /
\* registerOrJoin / complete / fail and the rate-limit store calls are
\* awaited without it.
\* ---------------------------------------------------------------------

\* get has been called and has not settled
Suspended(c) == pc[c] \notin {"idle"} \cup Final

InitAbort ==
  /\ cfg \in {k \in Configs : k.signal}
  /\ now = 0
  /\ cooldown = 0
  /\ cache \in IF cfg.cache
               THEN {NoEntry} \cup {CacheSet(e, StoreTTL(e), 0) : e \in InitEntries}
               ELSE {NoEntry}
  /\ job = NoJob
  /\ pc = [c \in Callers |-> "idle"]
  /\ stale = [c \in Callers |-> NoEntry]
  /\ cand = [c \in Callers |-> FALSE]
  /\ timer = [c \in Callers |-> NoTimer]
  /\ already = [c \in Callers |-> FALSE]
  /\ resp = [c \in Callers |-> NoResp]
  /\ result = [c \in Callers |-> NoResult]
  /\ reval = [c \in Callers |-> NoEntry]
  /\ h = [c \in Callers |-> NoHist]
  /\ attempt = [c \in Callers |-> 1]
  /\ fin = NoValue
  /\ fout = NoValue
  /\ store = [c \in Callers |-> FALSE]

\* controller.abort() while get is pending
SignalFire(c) ==
  /\ cfg.signal
  /\ Suspended(c)
  /\ ~store[c]
  /\ store' = [store EXCEPT ![c] = TRUE]
  /\ UNCHANGED <<cfg, now, cooldown, cache, job, pc, stale, cand, timer,
                 already, resp, result, reval, h, attempt, fin, fout>>

\* onAbort of wait() / the rejection of fetch: it runs when the signal
\* fires and at once when wait or fetch is entered with an aborted signal
AbortReject(c) == store[c] /\ Abort(c)

\* the steps of call c that do not look at the signal
StoreSteps(c) ==
  \/ CacheLookup(c)
  \/ DedupeWaitFor(c)
  \/ Register(c)
  \/ RateLimit(c)
  \/ FetchSend(c)
  \/ CacheWrite(c)
  \/ Complete(c)
  \/ RevalReturn(c)

\* timers and the transport: once the signal has fired, the timer of
\* wait() is cleared and fetch has rejected
SignalSteps(c) ==
  /\ ~store[c]
  /\ \/ CooldownWake(c)
     \/ RateWake(c)
     \/ RetryWake(c)
     \/ FetchReturn(c)

NextAbort ==
  \/ \E c \in Callers : Start(c)
  \/ \E c \in Callers : SignalFire(c)
  \/ \E c \in Callers : AbortReject(c)
  \/ \E c \in Callers : StoreSteps(c)
  \/ \E c \in Callers : SignalSteps(c)
  \/ Tick

SpecAbort == InitAbort /\ [][NextAbort]_vars

\* stores and transport answer, timers fire, rejections are delivered;
\* when get is called and when the signal fires is up to the caller
SpecAbortFair ==
  /\ SpecAbort
  /\ \A c \in Callers :
       /\ WF_vars(AbortReject(c))
       /\ WF_vars(StoreSteps(c))
       /\ WF_vars(SignalSteps(c))
  /\ WF_vars(Tick)

\* C31: once the signal of a pending get has fired, the call eventually
\* rejects with the AbortError, wherever it was suspended.
C31_AbortAlwaysRejects ==
  \A c \in Callers :
    (store[c] /\ Suspended(c)) ~> (pc[c] = "failed" /\ result[c].src = "abort")

\* C32: a background revalidation that completes after a cache write has
\* put another (newer) value under the fingerprint does not put the value
\* of the entry it captured back.
C32_RevalidationKeepsNewerValue ==
  [][\A c \in Callers :
       (/\ reval[c] # NoEntry /\ reval'[c] = NoEntry
        /\ CacheGet(cache, now) # NoEntry
        /\ cache.entry.value # reval[c].value)
       => /\ cache' # NoEntry
          /\ cache'.entry.value # reval[c].value]_vars

\* C33: when a get call and the background revalidation it scheduled are
\* over, the rate-limit store has counted (by a successful acquire or a
\* record call) every transport invocation made for them.
C33_EveryFetchCounted ==
  \A c \in Callers :
    (cfg.rateLimit # "none" /\ pc[c] \in Final /\ reval[c] = NoEntry)
    => h[c].fetches + (IF h[c].revalStatus # "none" THEN 1 ELSE 0)
         <= h[c].recs + h[c].acqs

\* ---------------------------------------------------------------------
\* DynamoDBAdaptiveRateLimitStore on one resource: acquire, canProceed and
\* record of a user and a background caller against the slot items, the
\* TS# items and the in-memory activity metrics, with the allocation read
\* through calculateCurrentCapacity.
\* ---------------------------------------------------------------------

\* callers of the store, one per priority
AdProcs == {"u", "b"}

Priority(p) == IF p = "u" THEN "user" ELSE "background"

Priorities == {"user", "background"}

AdTickMs == 1000

MaxAdNow == 8000

AdTimes == {t \in CapEpoch..MaxAdNow : (t - CapEpoch) % AdTickMs = 0}

\* RateLimitConfig of the resource and the AdaptiveConfig of the store;
\* backgroundPauseOnIncreasingTrend is off, so userActivityTrend is read
\* by no branch of the calculator
AdaptiveConfig ==
  [limit |-> 3, windowMs |-> 2000, monitoringWindowMs |-> 1000,
   recalculationIntervalMs |-> 1000,
   sustainedInactivityThresholdMs |-> 2000,
   calculator |->
     [CalculatorConfig EXCEPT !.backgroundPauseOnIncreasingTrend = FALSE]]

AdLimit == AdaptiveConfig.limit

InitAdaptive ==
  /\ ClientInit /\ fin = NoValue /\ fout = NoValue
  /\ store =
        [now |-> CapEpoch,
         recentRequests |-> [pr \in Priorities |-> <<>>],
         slots |-> [pr \in Priorities |-> [i \in 0..(AdLimit - 1) |-> Undef]],
         events |-> [pr \in Priorities |-> [t \in AdTimes |-> 0]],
         lastCapacityUpdate |-> Undef,
         cachedCapacity |-> NoAllocation,
         frame |-> [p \in AdProcs |-> [pc |-> "idle", op |-> "none"]]]

\* what the calculator derives from the metrics of the resource at s.now
ActivityInput(s) ==
  LET user == s.recentRequests["user"]
      recent == Cardinality({k \in 1..Len(user) :
                               user[k] > s.now - AdaptiveConfig.monitoringWindowMs})
  IN  [totalLimit |-> AdLimit, recentUserActivity |-> recent,
       anyUserRequests |-> Len(user) > 0,
       sustained |-> /\ recent = 0 /\ Len(user) > 0
                     /\ s.now - user[Len(user)]
                          >= AdaptiveConfig.sustainedInactivityThresholdMs,
       anyBackgroundRequests |-> Len(s.recentRequests["background"]) > 0,
       trend |-> IF recent > 0 THEN "stable" ELSE "none",
       config |-> AdaptiveConfig.calculator]

\* calculateCurrentCapacity: the allocations it may return and the cache
\* maps it leaves
CurrentCapacity(s) ==
  LET lastUpdate == IF s.lastCapacityUpdate = Undef
                      THEN 0 ELSE s.lastCapacityUpdate
  IN  IF s.now - lastUpdate < AdaptiveConfig.recalculationIntervalMs
        THEN {[capacity |-> IF s.cachedCapacity # NoAllocation
                              THEN s.cachedCapacity
                              ELSE getDefaultCapacity(AdLimit),
               store |-> s]}
        ELSE {[capacity |-> capacity,
               store |-> [s EXCEPT !.cachedCapacity = capacity,
                                   !.lastCapacityUpdate = s.now]] :
                capacity \in calculateDynamicCapacity(AdLimit, ActivityInput(s))}

\* cleanupOldRequests after push(now)
PushRequest(requests, currentTime) ==
  LET pushed == Append(requests, currentTime)
      cutoff == currentTime - AdaptiveConfig.monitoringWindowMs
      idx == CHOOSE k \in 1..Len(pushed) :
               /\ pushed[k] >= cutoff
               /\ \A j \in 1..(k - 1) : pushed[j] < cutoff
  IN  SubSeq(pushed, idx, Len(pushed))

\* the TS# item is written and the in-memory metrics are updated
Recorded(s, pr) ==
  [s EXCEPT !.events[pr][s.now] = @ + 1,
            !.recentRequests[pr] = PushRequest(@, s.now)]

RECURSIVE SumOver(_, _)
SumOver(f, T) ==
  IF T = {} THEN 0
  ELSE LET t == CHOOSE x \in T : TRUE
       IN  f[t] + SumOver(f, T \ {t})

\* getCurrentUsage: TS# items of the priority with timestamp >= windowStart
CurrentUsage(s, pr) ==
  SumOver(s.events[pr], {t \in AdTimes : t >= s.now - AdaptiveConfig.windowMs})

\* a caller invokes acquire, as the HTTP client does again and again while
\* it is refused, or (the user caller) canProceed
AdCall(p) ==
  /\ store.frame[p].pc \in {"idle", "true", "false"}
  /\ \E op \in IF p = "u" THEN {"acquire", "canProceed"} ELSE {"acquire"} :
       store' = [store EXCEPT !.frame[p] = [pc |-> "calling", op |-> op]]
  /\ StoreUnchanged

\* acquire(resource, priority): the first slot below limitForPriority,
\* counted from a random start, whose conditional Put commits
AdAcquire(p) ==
  /\ store.frame[p] = [pc |-> "calling", op |-> "acquire"]
  /\ \E cur \in CurrentCapacity(store) :
       LET pr == Priority(p)
           s == cur.store
           limitForPriority == IF pr = "user" THEN cur.capacity.userReserved
                               ELSE cur.capacity.backgroundMax
           windowStart == s.now - AdaptiveConfig.windowMs
           free == IF limitForPriority <= 0 THEN {}
                   ELSE {i \in 0..(Min(limitForPriority, AdLimit) - 1) :
                           SlotFree(s.slots[pr][i], windowStart)}
       IN  IF (pr = "background" /\ cur.capacity.backgroundPaused)
              \/ limitForPriority <= 0 \/ free = {}
           THEN store' = [s EXCEPT !.frame[p] = [pc |-> "false", op |-> "none"]]
           ELSE \E slot \in free :
                  store' = [Recorded(s, pr) EXCEPT
                              !.slots[pr][slot] = s.now,
                              !.frame[p] = [pc |-> "true", op |-> "none"]]
  /\ StoreUnchanged

\* canProceed(resource, priority)
AdCanProceed(p) ==
  /\ store.frame[p] = [pc |-> "calling", op |-> "canProceed"]
  /\ \E cur \in CurrentCapacity(store) :
       LET pr == Priority(p)
           s == cur.store
           ok == IF pr = "background" /\ cur.capacity.backgroundPaused
                 THEN FALSE
                 ELSE IF pr = "user"
                 THEN CurrentUsage(s, "user") < cur.capacity.userReserved
                 ELSE CurrentUsage(s, "background") < cur.capacity.backgroundMax
       IN  store' = [s EXCEPT !.frame[p] =
                       [pc |-> IF ok THEN "proceed" ELSE "false",
                        op |-> "none"]]
  /\ StoreUnchanged

\* record(resource, priority), called by the client after the request that
\* canProceed let through
AdRecord(p) ==
  /\ store.frame[p].pc = "proceed"
  /\ store' = [Recorded(store, Priority(p)) EXCEPT !.frame[p].pc = "true"]
  /\ StoreUnchanged

AdTick ==
  /\ store.now + AdTickMs <= MaxAdNow
  /\ store' = [store EXCEPT !.now = @ + AdTickMs]
  /\ StoreUnchanged

NextAdaptive ==
  \/ \E p \in AdProcs : AdCall(p)
  \/ \E p \in AdProcs : AdAcquire(p)
  \/ \E p \in AdProcs : AdCanProceed(p)
  \/ \E p \in AdProcs : AdRecord(p)
  \/ AdTick

SpecAdaptive == InitAdaptive /\ [][NextAdaptive]_vars

\* requests of both priorities admitted with a timestamp in [t, t + windowMs)
AdmittedInWindow(t) ==
  LET window == {x \in AdTimes : x >= t /\ x < t + AdaptiveConfig.windowMs}
  IN  SumOver(store.events["user"], window)
        + SumOver(store.events["background"], window)

\* C34: the requests admitted for the resource, user and background
\* together, with timestamps inside one window of windowMs are never more
\* than the configured limit.
C34_TotalWithinLimit ==
  \A t \in AdTimes : AdmittedInWindow(t) <= AdLimit

\* the user caller keeps calling (the client polls while it is refused),
\* every call is answered and time passes; background callers call when
\* they like
SpecAdaptiveFair ==
  /\ SpecAdaptive
  /\ WF_vars(AdCall("u"))
  /\ \A p \in AdProcs :
       /\ WF_vars(AdAcquire(p))
       /\ WF_vars(AdCanProceed(p))
       /\ WF_vars(AdRecord(p))
  /\ WF_vars(AdTick)

\* fewer requests than the limit have a timestamp in the current window
FreeCapacity ==
  CurrentUsage(store, "user") + CurrentUsage(store, "background") < AdLimit

\* C35: a user-priority call made when the metrics show sustained user
\* inactivity is eventually answered true (by acquire or canProceed),
\* unless the window of the resource fills up.
C35_UserEventuallyAdmitted ==
  (store.frame["u"].pc = "calling" /\ ActivityInput(store).sustained)
    ~> (store.frame["u"].pc \in {"true", "proceed"} \/ ~FreeCapacity)

\* ---------------------------------------------------------------------
\* applyServerRateLimitHints on its own, with every header family: a raw
\* header is Undef when absent, Unparseable when its text is no sequence
\* of digits, else the integer it spells.
\* ---------------------------------------------------------------------

parseIntegerHeader(value) ==
  IF value = Undef \/ value < 0 THEN Undef ELSE value

parseResetMs(value, currentTime) ==
  LET parsed == parseIntegerHeader(value)
      nowSeconds == currentTime \div 1000
  IN  IF parsed = Undef THEN Undef
      ELSE IF parsed = 0 THEN 0
      ELSE IF parsed > nowSeconds + 1
      THEN Max(0, (parsed - nowSeconds) * 1000)
      ELSE parsed * 1000

\* the headers of a response: Retry-After, RateLimit-Reset,
\* RateLimit-Remaining and r / t of the combined RateLimit header
HintHeaders ==
  [retryAfter : {Undef, Unparseable, 0, 2},
   reset : {Undef, Unparseable, 0, 1, 7},
   remaining : {Undef, Unparseable, 0, 3},
   combinedR : {Undef, 0, 3},
   combinedT : {Undef, 0, 1}]

HintStatuses == {200, 404, 429, 503}

HintNows == {0, 5000}

\* waitMs as applyServerRateLimitHints computes it, Undef when no rule
\* gives one
ServerHintWaitMsAnyStatus(headers, statusCode, currentTime) ==
  LET resetMs == parseResetMs(headers.reset, currentTime)
      effectiveResetMs == IF resetMs # Undef THEN resetMs
                          ELSE parseResetMs(headers.combinedT, currentTime)
  IN  IF parseRetryAfterMs(headers.retryAfter) # Undef
      THEN parseRetryAfterMs(headers.retryAfter)
      ELSE effectiveResetMs

ServerHintWaitMs(headers, statusCode, currentTime) ==
  LET retryAfterMs == parseRetryAfterMs(headers.retryAfter)
      resetMs == parseResetMs(headers.reset, currentTime)
      remaining == parseIntegerHeader(headers.remaining)
      effectiveRemaining == IF remaining # Undef THEN remaining
                            ELSE parseIntegerHeader(headers.combinedR)
      effectiveResetMs == IF resetMs # Undef THEN resetMs
                          ELSE parseResetMs(headers.combinedT, currentTime)
      hasRateLimitErrorStatus == statusCode \in {429, 503}
  IN  IF retryAfterMs # Undef THEN retryAfterMs
      ELSE IF effectiveResetMs # Undef
              /\ (hasRateLimitErrorStatus
                    \/ (effectiveRemaining # Undef /\ effectiveRemaining <= 0))
      THEN effectiveResetMs
      ELSE Undef

\* serverCooldowns.get(origin) after the call; 0 stands for no entry
CooldownAfterHints(cd, waitMs, currentTime) ==
  IF waitMs = Undef \/ waitMs <= 0 THEN cd ELSE currentTime + waitMs

InitHints ==
  /\ PureInit
  /\ fin \in [headers : HintHeaders, status : HintStatuses,
              now : HintNows, cooldown : {0, 9000}]
  /\ fout = [applied |-> FALSE, waitMs |-> Undef, cooldown |-> fin.cooldown]

ApplyHints ==
  /\ ~fout.applied
  /\ LET waitMs == ServerHintWaitMs(fin.headers, fin.status, fin.now)
     IN  fout' = [applied |-> TRUE, waitMs |-> waitMs,
                  cooldown |-> CooldownAfterHints(fin.cooldown, waitMs, fin.now)]
  /\ PureUnchanged

NextHints == ApplyHints

SpecHints == InitHints /\ [][NextHints]_vars

\* the call stored a deadline for the origin
Engaged == fout.waitMs # Undef /\ fout.cooldown = fin.now + fout.waitMs
             /\ fout.waitMs > 0

RetryAfterPresent == fin.headers.retryAfter # Undef

ResetPresent == fin.headers.reset # Undef \/ fin.headers.combinedT # Undef

RemainingExhausted ==
  \/ fin.headers.remaining \notin {Undef, Unparseable}
       /\ fin.headers.remaining <= 0
  \/ fin.headers.remaining \in {Undef, Unparseable}
       /\ fin.headers.combinedR # Undef /\ fin.headers.combinedR <= 0

\* C36 as stated: a deadline is stored exactly when Retry-After is present,
\* or a Reset value is present and the status is 429 or 503 or Remaining
\* is at most 0; otherwise the entry of the origin is unchanged.
C36_EngagedExactlyWhenPresent ==
  fout.applied =>
    /\ Engaged <=> (RetryAfterPresent
                      \/ (ResetPresent /\ (fin.status \in {429, 503}
                                             \/ RemainingExhausted)))
    /\ ~Engaged => fout.cooldown = fin.cooldown

\* the Retry-After / Reset header spells a number of seconds
RetryAfterParses == fin.headers.retryAfter \notin {Undef, Unparseable}

ResetSeconds ==
  IF fin.headers.reset \notin {Undef, Unparseable} THEN fin.headers.reset
  ELSE fin.headers.combinedT

\* C36 as amended: a deadline is stored exactly when Retry-After parses and
\* is positive, or Retry-After does not parse, a Reset value parses and is
\* positive, and the status is 429 or 503 or the parsed Remaining is 0; the
\* deadline is now plus that wait, and otherwise the entry is unchanged.
C36_EngagedWhenWaitPositive ==
  fout.applied =>
    /\ Engaged <=>
         \/ RetryAfterParses /\ fin.headers.retryAfter > 0
         \/ /\ ~RetryAfterParses
            /\ ResetSeconds # Undef /\ ResetSeconds > 0
            /\ fin.status \in {429, 503} \/ RemainingExhausted
    /\ Engaged /\ RetryAfterParses
         => fout.cooldown = fin.now + fin.headers.retryAfter * 1000
    /\ ~Engaged => fout.cooldown = fin.cooldown

\* a 429 response with Retry-After: 0 and a Reset value in the future left
\* an existing entry as it was
C36_Witness ==
  /\ fout.applied
  /\ fin.headers.retryAfter = 0 /\ fin.headers.reset = 7
  /\ fin.status = 429 /\ fin.cooldown = 9000
  /\ fout.cooldown = fin.cooldown

\* ---------------------------------------------------------------------
\* A background revalidation that fails.
\* ---------------------------------------------------------------------

\* the conditional request met a network error or an error response
RevalResponseFailed(r) ==
  IsNetworkFailure(r) \/ (~ResponseOk(r) /\ r.status # 304)

\* C37: when a background revalidation settles after a network error, an
\* error response or a throwing handler, no call of get changes its
\* position or its outcome (nothing rejects) and the cache store holds
\* exactly what it held before.
C37_FailedRevalidationSwallowed ==
  [][\A c \in Callers :
       (/\ reval[c] # NoEntry /\ reval'[c] = NoEntry
        /\ \/ h'[c].revalStatus = "failed"
           \/ RevalResponseFailed(h'[c].revalResp))
       => /\ cache' = cache
          /\ pc' = pc
          /\ result' = result]_vars

\* a call returned a stale value, its revalidation failed on an error
\* response and the stale entry is still the one in the store
C37_Witness ==
  \E c \in Callers :
    /\ h[c].cls = "stale-while-revalidate"
    /\ pc[c] = "done" /\ result[c].kind = "value"
    /\ reval[c] = NoEntry
    /\ h[c].revalStatus = "failed"
    /\ h[c].revalResp.status = 500
    /\ cache # NoEntry /\ cache.entry.value = result[c].val

\* ---------------------------------------------------------------------
\* getFreshnessStatus on its own, over entries with every combination of
\* directives and clock values on both sides of each window's edge.
\* ---------------------------------------------------------------------

\* the metadata fields getFreshnessStatus reads
FreshMetadata ==
  { [cacheControl |-> [EMPTY_DIRECTIVES EXCEPT
                         !.maxAge = maxAge, !.noCache = noCache,
                         !.mustRevalidate = mustRevalidate,
                         !.staleWhileRevalidate = swr,
                         !.staleIfError = sie],
     expires |-> expires, lastModified |-> Undef,
     responseDate |-> 0, storedAt |-> 0, ageHeader |-> ageHeader] :
      maxAge \in {Undef, 0, 2}, noCache \in BOOLEAN,
      mustRevalidate \in BOOLEAN, swr \in {Undef, 0, 1},
      sie \in {Undef, 0, 2}, expires \in {Undef, 0, 3000},
      ageHeader \in {0, 1} }

\* Date.now() at the classification, ms
FreshNows == {0, 500, 1000, 1999, 2000, 2001, 3000, 3001, 4000, 4001, 6000}

InitFreshness ==
  /\ PureInit
  /\ fin \in [metadata : FreshMetadata, now : FreshNows]
  /\ fout = NoValue

ApplyFreshness ==
  /\ fout = NoValue
  /\ fout' = getFreshnessStatus(fin.metadata, fin.now)
  /\ PureUnchanged

NextFreshness == ApplyFreshness

SpecFreshness == InitFreshness /\ [][NextFreshness]_vars

\* age, lifetime and staleness of the classified entry, ms
FreshAge == calculateCurrentAgeMs(fin.metadata, fin.now)

FreshLifetime == calculateFreshnessLifetimeMs(fin.metadata)

FreshStaleness == FreshAge - FreshLifetime

\* the entry carries max-age and nothing else
OnlyMaxAge ==
  /\ fin.metadata.cacheControl.maxAge # Undef
  /\ fin.metadata.cacheControl =
       [EMPTY_DIRECTIVES EXCEPT !.maxAge = fin.metadata.cacheControl.maxAge]
  /\ fin.metadata.expires = Undef

\* C38: the classification follows a fixed precedence: no-cache first;
\* otherwise fresh exactly while lifetime > age (with only max-age=M,
\* exactly while age < M); otherwise must-revalidate, then
\* stale-while-revalidate while staleness <= SWR, then stale-if-error
\* while staleness <= SIE, else stale.
C38_FreshnessPrecedence ==
  fout # NoValue =>
    LET cc == fin.metadata.cacheControl
        inSwr == cc.staleWhileRevalidate # Undef
                   /\ FreshStaleness <= cc.staleWhileRevalidate * 1000
        inSie == cc.staleIfError # Undef
                   /\ FreshStaleness <= cc.staleIfError * 1000
    IN  /\ fout = "no-cache" <=> cc.noCache
        /\ fout = "fresh" <=> (~cc.noCache /\ FreshLifetime > FreshAge)
        /\ OnlyMaxAge => (fout = "fresh" <=> FreshAge < cc.maxAge * 1000)
        /\ OnlyMaxAge /\ fout # "fresh" => fout = "stale"
        /\ fout = "must-revalidate"
             <=> (~cc.noCache /\ FreshLifetime <= FreshAge
                    /\ cc.mustRevalidate)
        /\ fout = "stale-while-revalidate"
             <=> (~cc.noCache /\ FreshLifetime <= FreshAge
                    /\ ~cc.mustRevalidate /\ inSwr)
        /\ fout = "stale-if-error"
             <=> (~cc.noCache /\ FreshLifetime <= FreshAge
                    /\ ~cc.mustRevalidate /\ ~inSwr /\ inSie)
        /\ fout = "stale"
             <=> (~cc.noCache /\ FreshLifetime <= FreshAge
                    /\ ~cc.mustRevalidate /\ ~inSwr /\ ~inSie)

\* an entry exactly at the end of its lifetime, inside both stale windows
\* and marked must-revalidate, classified must-revalidate
C38_Witness ==
  /\ fout = "must-revalidate"
  /\ FreshLifetime = FreshAge /\ FreshLifetime > 0
  /\ fin.metadata.cacheControl.staleWhileRevalidate = 1
  /\ fin.metadata.cacheControl.staleIfError = 2

\* ---------------------------------------------------------------------
\* The TTL of entries that are stale when they are written.
\* ---------------------------------------------------------------------

\* C39: whenever get writes an entry that is not fresh at the moment it is
\* stored, the store item has an expiry time: its ttl is not 0, the value
\* that means never expires.
C39_StaleEntryExpires ==
  [][\A c \in Callers :
       (/\ pc[c] = "store" /\ pc'[c] = "complete"
        /\ ShouldStore(parseCacheControl(resp[c].cc), cfg.ignoreNoStore)
        /\ getFreshnessStatus(cache'.entry.metadata, now) # "fresh")
       => cache'.ttl # 0]_vars

\* ---------------------------------------------------------------------
\* A completed job and the calls that mark a job failed.
\* ---------------------------------------------------------------------

\* C40: once the job of the table is completed, no fail call and no
\* timeout handling of a waiter (an expired poll, the setTimeout callback)
\* changes the job's status or its stored result.
C40_CompletedIsTerminal ==
  [][(/\ store.item.status = "completed" /\ store.item.jobId # 0
      /\ \/ \E p \in DWorkers : Fail(p)
         \/ \E w \in DWaiters : Poll(w) \/ TimeoutFire(w))
     => /\ store'.item.status = "completed"
        /\ store'.item.result = store.item.result]_vars

====
